---- MODULE Spec2Model ----
(***************************************************************************)
(* UML-Designer, python-parser: the structural extraction engine.          *)
(*                                                                         *)
(*   RelationshipDetector   relationship/relationship_detector.py          *)
(*   AnalyzerFactory        analyzers/analyzer_factory.py                  *)
(*   PythonAnalyzer         analyzers/python_analyzer.py                   *)
(*   analyze_repo           analyze.py                                     *)
(*                                                                         *)
(* Strings of the program are TLA+ strings.  A class record is             *)
(* [class, fields, abstract]; a relationship edge is                       *)
(* [from, to, type, source, multiplicity].  A key that a dict lacks (get   *)
(* returns None) is the empty string here: both are falsy and equal to no  *)
(* class name and to no relationship type; an edge without the optional   *)
(* multiplicity has multiplicity "".  A field string is a sequence of     *)
(* tokens, each an identifier or one punctuation character.               *)
(***************************************************************************)
EXTENDS Integers, Sequences, FiniteSets, TLC

VARIABLES
    relationships,  \* RelationshipDetector.relationships
    all_classes,    \* RelationshipDetector.all_classes
    d_op,           \* the detector method called last
    d_arg,          \* its argument
    d_result,       \* its return value
    in_arg,         \* the list a run's caller holds and passes to the calls
    analyzers,      \* AnalyzerFactory.analyzers: language -> analyzer object
    next_id,        \* identity of the next analyzer object created
    f_gen,          \* number of reset_all_analyzers calls so far
    f_op,           \* the factory method called last
    f_result,       \* its return value
    f_concat,       \* detect_all_relationships: the list before the seen filter
    f_log,          \* the analyze_file calls so far: file, analyzer, result
    file_tasks,     \* analyze_repo: the tasks submitted to the pool
    task_pc,        \* where each task is: queued, register, members, done
    all_class_names,    \* analyze_repo: the set the workers share
    result,         \* analyze_repo: result['python'], result['relations']
    inheritance_rels,   \* analyze_repo: the edge lists the workers share
    composition_rels,
    dependency_rels,
    usage_rels,
    repo_pc,        \* analyze_repo: idle, workers, built
    returned,       \* what the analyze_repo calls so far returned
    groq,           \* the GroqClient object
    g_now,          \* time.time()
    g_posts,        \* number of session.post calls so far
    g_calls,        \* number of GroqClient.call calls so far
    g_result,       \* what the last call returned or raised
    g_last          \* per payload, the last call that fetched a response

dvars == <<relationships, all_classes, d_op, d_arg, d_result>>
fvars == <<analyzers, next_id, f_gen, f_op, f_result, f_concat, f_log>>
rvars == <<file_tasks, task_pc, all_class_names, result, inheritance_rels,
           composition_rels, dependency_rels, usage_rels, repo_pc, returned>>
gvars == <<groq, g_now, g_posts, g_calls, g_result, g_last>>
not_detector == <<in_arg, fvars, rvars, gvars>>
not_factory == <<dvars, in_arg, rvars, gvars>>
not_repo == <<dvars, in_arg, fvars, gvars>>
not_groq == <<dvars, in_arg, fvars, rvars>>
vars == <<dvars, in_arg, fvars, rvars, gvars>>

----------------------------------------------------------------------------
(* Sequence helpers *)

RECURSIVE Concat(_)
Concat(ss) == IF ss = <<>> THEN <<>> ELSE Head(ss) \o Concat(Tail(ss))

Range(s) == {s[i] : i \in DOMAIN s}

\* Step applied to the value of v: v is evaluated once, before Step
Then(v, Step(_)) == CHOOSE out \in {Step(x) : x \in {v}} : TRUE

SeqsUpTo(S, n) == UNION {[1..k -> S] : k \in 0..n}

----------------------------------------------------------------------------
(* constants.py *)

RELATIONSHIP_TYPES ==
    [EXTENDS |-> "extends", IMPLEMENTS |-> "implements",
     COMPOSITION |-> "composition", AGGREGATION |-> "aggregation",
     USES |-> "uses", DEPENDENCY |-> "dependency",
     ASSOCIATION |-> "association"]

RelationshipTypeValues ==
    {RELATIONSHIP_TYPES[k] : k \in DOMAIN RELATIONSHIP_TYPES}

----------------------------------------------------------------------------
(* RelationshipDetector *)

EdgeM(f, t, ty, src, m) ==
    [from |-> f, to |-> t, type |-> ty, source |-> src, multiplicity |-> m]

Edge(f, t, ty, src) == EdgeM(f, t, ty, src, "")

\* a key that tells edges of different source apart
KeyWithSource(rel) == <<rel.from, rel.to, rel.type, rel.source>>

Key(rel) == <<rel.from, rel.to, rel.type>>

\* Python truthiness of a string or None
Truthy(s) == s # ""

is_valid_relationship_no_self_check(rel, classes) ==
    IF ~(Truthy(rel.from) /\ Truthy(rel.to) /\ Truthy(rel.type)) THEN FALSE
    ELSE IF rel.type \notin RelationshipTypeValues THEN FALSE
    ELSE IF rel.type # "dependency"
            /\ (rel.from \notin classes \/ rel.to \notin classes) THEN FALSE
    ELSE TRUE

is_valid_relationship(rel, classes) ==
    IF ~(Truthy(rel.from) /\ Truthy(rel.to) /\ Truthy(rel.type)) THEN FALSE
    ELSE IF rel.type \notin RelationshipTypeValues THEN FALSE
    ELSE IF rel.type # "dependency"
            /\ (rel.from \notin classes \/ rel.to \notin classes) THEN FALSE
    ELSE IF rel.from = rel.to /\ rel.type \notin {"dependency"} THEN FALSE
    ELSE TRUE

RECURSIVE ValidLoop(_, _, _)
ValidLoop(rels, classes, valid_relationships) ==
    IF rels = <<>> THEN valid_relationships
    ELSE ValidLoop(Tail(rels), classes,
                   IF is_valid_relationship(Head(rels), classes)
                   THEN Append(valid_relationships, Head(rels))
                   ELSE valid_relationships)

ValidateRelationships(rels, classes) == ValidLoop(rels, classes, <<>>)

set_classes(classes) ==
    /\ all_classes' = {classes[i].class : i \in DOMAIN classes}
    /\ d_op' = "set_classes"
    /\ d_arg' = <<>>
    /\ d_result' = <<>>
    /\ UNCHANGED relationships

add_relationships(rels) ==
    /\ relationships' = relationships \o rels
    /\ d_op' = "add_relationships"
    /\ d_arg' = rels
    /\ d_result' = <<>>
    /\ UNCHANGED all_classes

\* a validation that stores the valid edges in place of the candidates
validate_relationships_replacing_stored ==
    /\ d_op' = "validate_relationships"
    /\ d_arg' = <<>>
    /\ d_result' = ValidateRelationships(relationships, all_classes)
    /\ relationships' = ValidateRelationships(relationships, all_classes)
    /\ UNCHANGED all_classes

validate_relationships ==
    /\ d_op' = "validate_relationships"
    /\ d_arg' = <<>>
    /\ d_result' = ValidateRelationships(relationships, all_classes)
    /\ UNCHANGED <<relationships, all_classes>>

\* deduplicate_relationships: the loop with its seen set
RECURSIVE DedupLoopRemoveWhileIterating(_, _, _)
DedupLoopRemoveWhileIterating(rels, seen, unique_rels) ==
    IF rels = <<>> THEN unique_rels
    ELSE LET rel == Head(rels)
             key == Key(rel)
         IN  IF key \notin seen
             THEN DedupLoopRemoveWhileIterating(
                      Tail(rels), seen \cup {key}, Append(unique_rels, rel))
             ELSE IF Tail(rels) = <<>> THEN unique_rels
             ELSE DedupLoopRemoveWhileIterating(
                      Tail(Tail(rels)), seen,
                      Append(unique_rels, Head(Tail(rels))))

RECURSIVE DedupLoop(_, _, _)
DedupLoop(rels, seen, unique_rels) ==
    IF rels = <<>> THEN unique_rels
    ELSE LET rel == Head(rels)
             key == Key(rel)
         IN  IF key \notin seen
             THEN DedupLoop(Tail(rels), seen \cup {key},
                            Append(unique_rels, rel))
             ELSE DedupLoop(Tail(rels), seen, unique_rels)

\* a pass that returns the list it is given
DeduplicateRelationshipsKeepAll(rels) == rels

DeduplicateRelationships(rels) == DedupLoop(rels, {}, <<>>)

deduplicate_relationships(rels) ==
    /\ d_op' = "deduplicate_relationships"
    /\ d_arg' = rels
    /\ d_result' = DeduplicateRelationships(rels)
    /\ UNCHANGED <<relationships, all_classes>>

\* detect_circular_dependencies: the adjacency dict (keys in insertion
\* order) and the depth-first search with visited, rec_stack and cycles
GraphTypesNoExtends == {"implements", "composition", "dependency"}

GraphTypes == {"extends", "implements", "composition", "dependency"}

EmptyGraph == [keys |-> <<>>, adj |-> <<>>]

RECURSIVE BuildGraph(_, _)
BuildGraph(rels, graph) ==
    IF rels = <<>> THEN graph
    ELSE LET rel == Head(rels)
             from_class == rel.from
             to_class == rel.to
         IN  IF rel.type \in GraphTypes
             THEN LET g1 == IF from_class \notin DOMAIN graph.adj
                            THEN [keys |-> Append(graph.keys, from_class),
                                  adj |-> (from_class :> <<>>) @@ graph.adj]
                            ELSE graph
                  IN  BuildGraph(Tail(rels),
                          [g1 EXCEPT !.adj[from_class] = Append(@, to_class)])
             ELSE BuildGraph(Tail(rels), graph)

\* the neighbours of a node other than the node itself
GraphGetOthers(graph, node) ==
    IF node \in DOMAIN graph.adj
    THEN SelectSeq(graph.adj[node], LAMBDA n : n # node)
    ELSE <<>>

GraphGet(graph, node) ==
    IF node \in DOMAIN graph.adj THEN graph.adj[node] ELSE <<>>

\* a slice that starts at the head of the list whatever x is
IndexOfHead(s, x) == 1

\* list.index: the first position of x in s
Index(s, x) == CHOOSE i \in DOMAIN s :
                    s[i] = x /\ \A j \in 1..(i - 1) : s[j] # x

RECURSIVE dfs(_, _, _, _)
RECURSIVE dfs_neighbors(_, _, _, _)
dfs(graph, node, path, st) ==
    LET path1 == Append(path, node)
        st1 == [visited |-> st.visited \cup {node},
                rec_stack |-> st.rec_stack \cup {node},
                cycles |-> st.cycles]
        st2 == dfs_neighbors(graph, path1, GraphGet(graph, node), st1)
    IN  [st2 EXCEPT !.rec_stack = @ \ {node}]

dfs_neighbors(graph, path, neighbors, st) ==
    IF neighbors = <<>> THEN st
    ELSE LET neighbor == Head(neighbors) IN
         IF neighbor \notin st.visited
         THEN dfs_neighbors(graph, path, Tail(neighbors),
                            dfs(graph, neighbor, path, st))
         ELSE IF neighbor \in st.rec_stack
         THEN LET cycle_start == Index(path, neighbor)
                  cycle == SubSeq(path, cycle_start, Len(path))
                               \o <<neighbor>>
              IN  dfs_neighbors(graph, path, Tail(neighbors),
                      IF cycle \notin Range(st.cycles)
                      THEN [st EXCEPT !.cycles = Append(@, cycle)]
                      ELSE st)
         ELSE dfs_neighbors(graph, path, Tail(neighbors), st)

\* a search that forgets the visited nodes before every root
RECURSIVE DfsRootsFreshVisited(_, _, _)
DfsRootsFreshVisited(graph, nodes, st) ==
    IF nodes = <<>> THEN st
    ELSE DfsRootsFreshVisited(graph, Tail(nodes),
             dfs(graph, Head(nodes), <<>>, [st EXCEPT !.visited = {}]))

RECURSIVE DfsRoots(_, _, _)
DfsRoots(graph, nodes, st) ==
    IF nodes = <<>> THEN st
    ELSE DfsRoots(graph, Tail(nodes),
                  IF Head(nodes) \notin st.visited
                  THEN dfs(graph, Head(nodes), <<>>, st)
                  ELSE st)

DetectCircularDependencies(rels) ==
    LET graph == BuildGraph(rels, EmptyGraph)
    IN  DfsRoots(graph, graph.keys,
                 [visited |-> {}, rec_stack |-> {}, cycles |-> <<>>]).cycles

detect_circular_dependencies ==
    /\ d_op' = "detect_circular_dependencies"
    /\ d_arg' = <<>>
    /\ d_result' = DetectCircularDependencies(relationships)
    /\ UNCHANGED <<relationships, all_classes>>

\* str operations on token sequences: `c in s`, s.split(sep), s.strip()
Contains(s, c) == \E i \in DOMAIN s : s[i] = c

RECURSIVE SplitLoop(_, _, _, _)
SplitLoop(s, sep, piece, pieces) ==
    IF s = <<>> THEN Append(pieces, piece)
    ELSE IF Head(s) = sep
         THEN SplitLoop(Tail(s), sep, <<>>, Append(pieces, piece))
         ELSE SplitLoop(Tail(s), sep, Append(piece, Head(s)), pieces)

Split(s, sep) == SplitLoop(s, sep, <<>>, <<>>)

RECURSIVE LStrip(_)
LStrip(s) == IF s # <<>> /\ Head(s) = " " THEN LStrip(Tail(s)) ELSE s

RECURSIVE RStrip(_)
RStrip(s) ==
    IF s # <<>> /\ s[Len(s)] = " " THEN RStrip(SubSeq(s, 1, Len(s) - 1))
    ELSE s

Strip(s) == RStrip(LStrip(s))

\* the text of a token sequence
RECURSIVE Join(_)
Join(s) == IF s = <<>> THEN "" ELSE Head(s) \o Join(Tail(s))

\* the iteration order of a Python set: one fixed order per set
RECURSIVE SetToSeq(_)
SetToSeq(S) ==
    IF S = {} THEN <<>>
    ELSE LET x == CHOOSE y \in S : TRUE IN <<x>> \o SetToSeq(S \ {x})

\* lines 142-146: the declared type of one "fieldName: Type" string
FieldType(field) ==
    LET field_type == Strip(Split(field, ":")[2])
    IN  Join(Strip(Split(Split(field_type, "<")[1], "[")[1]))

FieldTypesOf(fields) ==
    {FieldType(fields[i]) :
        i \in {j \in DOMAIN fields : Contains(fields[j], ":")}}

\* lines 135-146: field_types, a dict from class name to a set of type names
EmptyDict == [keys |-> <<>>, val |-> <<>>]

RECURSIVE BuildFieldTypes(_, _)
BuildFieldTypes(classes, field_types) ==
    IF classes = <<>> THEN field_types
    ELSE LET cls == Head(classes)
             class_name == cls.class
         IN  BuildFieldTypes(Tail(classes),
                 [keys |-> IF class_name \in DOMAIN field_types.val
                           THEN field_types.keys
                           ELSE Append(field_types.keys, class_name),
                  val |-> (class_name :> FieldTypesOf(cls.fields))
                              @@ field_types.val])

\* lines 149-157
RECURSIVE InferTypesLoop(_, _, _, _)
InferTypesLoop(class_name, types, known, inferred) ==
    IF types = <<>> THEN inferred
    ELSE LET field_type == Head(types) IN
         InferTypesLoop(class_name, Tail(types), known,
             IF field_type \in known /\ field_type # class_name
             THEN Append(inferred,
                         Edge(class_name, field_type, "composition",
                              "inferred"))
             ELSE inferred)

RECURSIVE InferCompositions(_, _, _, _)
InferCompositions(keys, field_types, known, inferred) ==
    IF keys = <<>> THEN inferred
    ELSE InferCompositions(Tail(keys), field_types, known,
             InferTypesLoop(Head(keys),
                            SetToSeq(field_types.val[Head(keys)]),
                            known, inferred))

\* lines 169-171: next((c for c in classes if c['class'] == base_class), None)
FindClass(classes, base_class) ==
    LET hits == {i \in DOMAIN classes : classes[i].class = base_class}
    IN  IF hits = {} THEN <<>>
        ELSE <<classes[CHOOSE i \in hits : \A j \in hits : i <= j]>>

\* lines 165-178 without the look at the base class's abstract flag
RECURSIVE InferImplementsRelsAnyBase(_, _, _, _)
InferImplementsRelsAnyBase(class_name, rels, classes, inferred) ==
    IF rels = <<>> THEN inferred
    ELSE LET rel == Head(rels) IN
         InferImplementsRelsAnyBase(class_name, Tail(rels), classes,
             IF rel.to = class_name /\ rel.type = "extends"
             THEN Append(inferred,
                         Edge(rel.from, class_name, "implements", "inferred"))
             ELSE inferred)

\* lines 165-178
RECURSIVE InferImplementsRels(_, _, _, _)
InferImplementsRels(class_name, rels, classes, inferred) ==
    IF rels = <<>> THEN inferred
    ELSE LET rel == Head(rels)
             base_class == rel.from
             base_cls_dict == FindClass(classes, base_class)
         IN  InferImplementsRels(class_name, Tail(rels), classes,
                 IF /\ rel.to = class_name
                    /\ rel.type = "extends"
                    /\ base_cls_dict # <<>>
                    /\ base_cls_dict[1].abstract
                 THEN Append(inferred,
                             Edge(base_class, class_name, "implements",
                                  "inferred"))
                 ELSE inferred)

\* lines 160-178
RECURSIVE InferImplements(_, _, _, _)
InferImplements(todo, classes, rels, inferred) ==
    IF todo = <<>> THEN inferred
    ELSE LET cls == Head(todo) IN
         InferImplements(Tail(todo), classes, rels,
             IF ~cls.abstract
             THEN InferImplementsRels(cls.class, rels, classes, inferred)
             ELSE inferred)

InferAdditionalRelationships(classes, rels, known) ==
    LET field_types == BuildFieldTypes(classes, EmptyDict)
        compositions ==
            InferCompositions(field_types.keys, field_types, known, <<>>)
    IN  InferImplements(classes, classes, rels, compositions)

infer_additional_relationships(classes) ==
    /\ d_op' = "infer_additional_relationships"
    /\ d_arg' = classes
    /\ d_result' =
           InferAdditionalRelationships(classes, relationships, all_classes)
    /\ UNCHANGED <<relationships, all_classes>>

\* categorize_relationships: the dict keyed by the keys of RELATIONSHIP_TYPES
CategorizeRelationships(rels) ==
    [rel_type \in DOMAIN RELATIONSHIP_TYPES |->
        LET InBucket(rel) == rel.type = rel_type
        IN  SelectSeq(rels, InBucket)]

categorize_relationships(rels) ==
    /\ d_op' = "categorize_relationships"
    /\ d_arg' = rels
    /\ d_result' = CategorizeRelationships(rels)
    /\ UNCHANGED <<relationships, all_classes>>

\* filter_relationships_by_strength
strength_order == <<"strong", "medium", "weak">>

strength_map ==
    [rel_type \in {"extends", "implements", "composition", "aggregation",
                   "association", "uses", "dependency", "creates"} |->
        IF rel_type \in {"extends", "implements"} THEN "strong"
        ELSE IF rel_type \in {"composition", "aggregation", "association"}
        THEN "medium"
        ELSE "weak"]

\* strength_map.get(rel_type, 'weak')
StrengthOf(rel_type) ==
    IF rel_type \in DOMAIN strength_map THEN strength_map[rel_type]
    ELSE "weak"

\* the filter that keeps the edges strictly stronger than min_strength
FilterStrictlyStronger(rels, min_strength) ==
    LET min_idx == Index(strength_order, min_strength)
        Kept(rel) == Index(strength_order, StrengthOf(rel.type)) < min_idx
    IN  SelectSeq(rels, Kept)

FilterRelationshipsByStrength(rels, min_strength) ==
    LET min_idx == Index(strength_order, min_strength)
        Kept(rel) == Index(strength_order, StrengthOf(rel.type)) <= min_idx
    IN  SelectSeq(rels, Kept)

\* d_arg holds the arguments <<relationships, min_strength>>; a
\* min_strength that strength_order.index does not find raises ValueError
filter_relationships_by_strength(rels, min_strength) ==
    /\ d_arg' = <<rels, min_strength>>
    /\ IF min_strength \in Range(strength_order)
       THEN /\ d_op' = "filter_relationships_by_strength"
            /\ d_result' = FilterRelationshipsByStrength(rels, min_strength)
       ELSE /\ d_op' = "ValueError"
            /\ d_result' = <<>>
    /\ UNCHANGED <<relationships, all_classes>>

\* get_relationship_statistics
GetRelationshipStatistics(rels, classes) ==
    LET categorized == CategorizeRelationships(rels) IN
    [total_relationships |-> Len(rels),
     by_type |-> [k \in {k \in DOMAIN categorized : categorized[k] # <<>>} |->
                     Len(categorized[k])],
     total_classes |-> Cardinality(classes),
     circular_dependencies |-> Len(DetectCircularDependencies(rels))]

get_relationship_statistics ==
    /\ d_op' = "get_relationship_statistics"
    /\ d_arg' = <<>>
    /\ d_result' = GetRelationshipStatistics(relationships, all_classes)
    /\ UNCHANGED <<relationships, all_classes>>

\* get_class_relationships
GetClassRelationships(rels, class_name) ==
    LET Outgoing(rel) == rel.from = class_name
        Incoming(rel) == rel.to = class_name
        incoming == SelectSeq(rels, Incoming)
        outgoing == SelectSeq(rels, Outgoing)
    IN  [incoming |-> incoming, outgoing |-> outgoing,
         total |-> Len(incoming) + Len(outgoing)]

get_class_relationships(class_name) ==
    /\ d_op' = "get_class_relationships"
    /\ d_arg' = class_name
    /\ d_result' = GetClassRelationships(relationships, class_name)
    /\ UNCHANGED <<relationships, all_classes>>

----------------------------------------------------------------------------
(* BaseAnalyzer and PythonAnalyzer                                         *)
(*                                                                         *)
(* An analyzer object is [id, cls, class_names, relationships, imports,    *)
(* compositions, usages]; id is the object's identity.  A Python source    *)
(* file is given by what open() and ast.parse() make of it: fault says     *)
(* whether they raise ("syntax": SyntaxError, "error": another exception), *)
(* imports are the module names of its import statements, classes are its  *)
(* ClassDef nodes in ast.walk order.  A ClassDef is [name, bases, body];    *)
(* a body item is an AnnAssign, an Assign or a FunctionDef, and a          *)
(* FunctionDef carries the nodes ast.walk(method) yields that the analyzer *)
(* looks at: AnnAssign, Assign, Call and Name nodes.  An expression (a     *)
(* base, an annotation) is [kind, id] with id the dotted name of a Name    *)
(* or Attribute node, or [kind |-> "Subscript", value].  The include set   *)
(* of the C++ analyzer is held in the imports field.                       *)

NewAnalyzer(id, cls) ==
    [id |-> id, cls |-> cls, class_names |-> {}, relationships |-> <<>>,
     imports |-> {}, compositions |-> <<>>, usages |-> <<>>,
     namespaces |-> {}]

\* is_class_known that finds no class registered
is_class_known_never(a, class_name) == FALSE

is_class_known(a, class_name) == class_name \in a.class_names

add_class_name(a, class_name) ==
    [a EXCEPT !.class_names = @ \cup {class_name}]

add_relationship(a, from_class, to_class, rel_type) ==
    [a EXCEPT !.relationships =
        Append(@, Edge(from_class, to_class, rel_type, "heuristic"))]

\* sorted(list(s)): a list that the set alone determines
Sorted(S) == SetToSeq(S)

create_class_dict(class_name, fields, methods, stereotype, abstract, package) ==
    [class |-> class_name, fields |-> fields, methods |-> methods,
     stereotype |-> stereotype, abstract |-> abstract, package |-> package]

RECURSIVE get_type_annotation(_)
get_type_annotation(annotation) ==
    IF annotation.kind = "Name" THEN annotation.id
    ELSE IF annotation.kind = "Attribute" THEN annotation.id
    ELSE IF annotation.kind = "Subscript"
         THEN get_type_annotation(annotation.value)
    ELSE "Any"

\* _extract_bases
RECURSIVE extract_bases(_, _, _)
extract_bases(a, bases, class_name) ==
    IF bases = <<>> THEN a
    ELSE extract_bases(
             IF Head(bases).kind \in {"Name", "Attribute"}
             THEN add_relationship(a, Head(bases).id, class_name, "extends")
             ELSE a,
             Tail(bases), class_name)

\* one subnode of ast.walk(method) in _analyze_method_body; m is
\* [a, fields, compositions]
RECURSIVE AssignTargets(_, _, _, _)
AssignTargets(m, targets, callee, class_name) ==
    IF targets = <<>> THEN m
    ELSE LET m1 == [m EXCEPT !.fields = @ \cup {<<Head(targets)>>}]
             m2 == IF callee # "" /\ is_class_known(m.a, callee)
                      /\ callee # class_name
                   THEN [m1 EXCEPT !.compositions = @ \cup {callee}]
                   ELSE m1
         IN  AssignTargets(m2, Tail(targets), callee, class_name)

MethodBodyNode(m, subnode, class_name) ==
    LET m1 == IF subnode.kind = "AnnAssign" /\ subnode.self_attr # ""
              THEN [m EXCEPT !.fields = @ \cup
                      {<<subnode.self_attr, ":", " ",
                         get_type_annotation(subnode.annotation)>>}]
              ELSE m
        m2 == IF subnode.kind = "Assign"
              THEN AssignTargets(m1, subnode.self_attrs, subnode.callee,
                                 class_name)
              ELSE m1
        m3 == IF subnode.kind = "Call" /\ subnode.func # ""
                 /\ is_class_known(m2.a, subnode.func)
                 /\ subnode.func # class_name
              THEN [m2 EXCEPT !.compositions = @ \cup {subnode.func}]
              ELSE m2
    IN  IF subnode.kind = "Name" /\ is_class_known(m3.a, subnode.id)
           /\ subnode.id # class_name
        THEN [m3 EXCEPT !.a.usages =
                 Append(@, Edge(class_name, subnode.id, "uses", "heuristic"))]
        ELSE m3

RECURSIVE analyze_method_body(_, _, _)
analyze_method_body(m, nodes, class_name) ==
    IF nodes = <<>> THEN m
    ELSE Then(MethodBodyNode(m, Head(nodes), class_name),
              LAMBDA m1 : analyze_method_body(m1, Tail(nodes), class_name))

\* _extract_members; m is [a, fields, methods, compositions]
RECURSIVE MembersLoop(_, _, _)
MembersLoop(m, body, class_name) ==
    IF body = <<>> THEN m
    ELSE LET item == Head(body) IN
         Then(
             IF item.kind = "AnnAssign" /\ item.id # ""
             THEN [m EXCEPT !.fields = @ \cup
                     {<<item.id, ":", " ",
                        get_type_annotation(item.annotation)>>}]
             ELSE IF item.kind = "Assign"
             THEN [m EXCEPT !.fields = @ \cup
                     {<<item.ids[i]>> : i \in DOMAIN item.ids}]
             ELSE IF item.kind = "FunctionDef"
             THEN LET r == analyze_method_body(
                               [a |-> m.a, fields |-> m.fields,
                                compositions |-> m.compositions],
                               item.nodes, class_name)
                  IN  [a |-> r.a, fields |-> r.fields,
                       methods |-> m.methods \cup {item.name},
                       compositions |-> r.compositions]
             ELSE m,
             LAMBDA m1 : MembersLoop(m1, Tail(body), class_name))

RECURSIVE RecordCompositions(_, _, _)
RecordCompositions(a, comps, class_name) ==
    IF comps = <<>> THEN a
    ELSE RecordCompositions(
             IF Head(comps) # "" /\ Head(comps) # class_name
             THEN [a EXCEPT !.compositions =
                     Append(@, Edge(class_name, Head(comps), "composition",
                                    "heuristic"))]
             ELSE a,
             Tail(comps), class_name)

extract_members(a, node, class_name) ==
    Then(MembersLoop([a |-> a, fields |-> {}, methods |-> {},
                      compositions |-> {}], node.body, class_name),
         LAMBDA m :
             [a |-> RecordCompositions(m.a, SetToSeq(m.compositions),
                                       class_name),
              fields |-> m.fields, methods |-> m.methods])

determine_stereotype(node) ==
    IF \E i \in DOMAIN node.bases :
           /\ node.bases[i].kind = "Name"
           /\ node.bases[i].id \in {"ABC", "ABCMeta"}
    THEN "abstract"
    ELSE IF \E i \in DOMAIN node.body :
               /\ node.body[i].kind = "FunctionDef"
               /\ "abstractmethod" \in node.body[i].decorators
    THEN "abstract"
    ELSE "class"

\* _analyze_class: the analyzer after it and the class dictionary
analyze_class(a, node, package_path) ==
    LET class_name == node.name
        stereotype == determine_stereotype(node)
    IN  Then(extract_members(extract_bases(a, node.bases, class_name),
                             node, class_name),
             LAMBDA r :
                 [a |-> r.a,
                  class_dict |-> create_class_dict(
                      class_name, Sorted(r.fields), Sorted(r.methods),
                      stereotype, stereotype = "abstract",
                      IF package_path # "" THEN package_path ELSE "main")])

RECURSIVE PyClassesLoop(_, _, _, _)
PyClassesLoop(a, nodes, package_path, classes) ==
    IF nodes = <<>> THEN [a |-> a, classes |-> classes, raised |-> FALSE]
    ELSE Then(analyze_class(a, Head(nodes), package_path),
              LAMBDA r :
                  PyClassesLoop(add_class_name(r.a, r.class_dict.class),
                                Tail(nodes), package_path,
                                Append(classes, r.class_dict)))

\* PythonAnalyzer.analyze_file with the parse failure not noticed
PyAnalyzeFileLenient(a, file, package_path) ==
    PyClassesLoop([a EXCEPT !.imports = @ \cup file.imports],
                  file.classes, package_path, <<>>)

\* PythonAnalyzer.analyze_file: [a, classes, raised]
PyAnalyzeFile(a, file, package_path) ==
    IF file.fault # "none"
    THEN [a |-> a, classes |-> <<>>, raised |-> FALSE]
    ELSE PyClassesLoop([a EXCEPT !.imports = @ \cup file.imports],
                       file.classes, package_path, <<>>)

\* PythonAnalyzer.detect_relationships
RECURSIVE UsagesLoop(_, _, _)
UsagesLoop(usages, seen_usages, rels) ==
    IF usages = <<>> THEN rels
    ELSE LET usage == Head(usages)
             key == <<usage.from, usage.to, usage.type>>
         IN  IF key \notin seen_usages
             THEN Then(seen_usages \cup {key},
                       LAMBDA seen : UsagesLoop(Tail(usages), seen,
                                                Append(rels, usage)))
             ELSE UsagesLoop(Tail(usages), seen_usages, rels)

RECURSIVE ImportsLoop(_, _, _)
ImportsLoop(imports, known, rels) ==
    IF imports = <<>> THEN rels
    ELSE ImportsLoop(Tail(imports), known,
             IF Head(imports) \in known
             THEN Append(rels, Edge(Head(imports), Head(imports),
                                    "dependency", "heuristic"))
             ELSE rels)

ClassNamesOf(all) == {all[i].class : i \in DOMAIN all}

PyDetectRelationships(a, all) ==
    ImportsLoop(SetToSeq(a.imports), ClassNamesOf(all),
                UsagesLoop(a.usages, {}, a.relationships \o a.compositions))

\* JavaAnalyzer, CSharpAnalyzer, TypeScriptAnalyzer and CppAnalyzer
\* detect_relationships: compositions and usages are kept when their target
\* is a known class other than their source
RECURSIVE FilteredUsagesLoop(_, _, _, _)
FilteredUsagesLoop(usages, known, seen_usages, rels) ==
    IF usages = <<>> THEN rels
    ELSE LET usage == Head(usages)
             key == <<usage.from, usage.to, usage.type>>
         IN  IF usage.to \in known /\ usage.to # usage.from
                /\ key \notin seen_usages
             THEN Then(seen_usages \cup {key},
                       LAMBDA seen : FilteredUsagesLoop(Tail(usages), known,
                                         seen, Append(rels, usage)))
             ELSE FilteredUsagesLoop(Tail(usages), known, seen_usages, rels)

FilteredDetectRelationships(a, all) ==
    LET known_classes == ClassNamesOf(all)
        IsValidComp(comp) == comp.to \in known_classes /\ comp.to # comp.from
    IN  ImportsLoop(SetToSeq(a.imports), known_classes,
            FilteredUsagesLoop(a.usages, known_classes, {},
                a.relationships \o SelectSeq(a.compositions, IsValidComp)))

DetectRelationships(a, all) ==
    IF a.cls = "PythonAnalyzer" THEN PyDetectRelationships(a, all)
    ELSE FilteredDetectRelationships(a, all)

----------------------------------------------------------------------------
(* Java source files                                                       *)
(*                                                                         *)
(* A Java source file is [path, fault, package, imports, classes,          *)
(* interfaces, source]: what javalang.parse.parse makes of it (fault says  *)
(* whether it raises), and its text as a token sequence, each token an     *)
(* identifier, a keyword or one punctuation character.  A ClassDeclaration *)
(* is [name, extends, implements, modifiers, fields, methods], extends ""  *)
(* when absent; a field declaration is [type, names], a method is [name,   *)
(* parameters]; an InterfaceDeclaration is [name, extends, methods].       *)

Punctuation ==
    {"{", "}", "(", ")", ";", "=", ".", ",", ":", "<", ">", "[", "]", " ",
     "*", "#", "\""}

\* [A-Za-z_][A-Za-z0-9_]* matches the whole token
IsWord(tok) == tok \notin Punctuation

TokenAt(text, i) == IF i \in DOMAIN text THEN text[i] ELSE " "

\* re.finditer over a token sequence: MatchLen(text, i) is the number of
\* tokens the pattern matches at i (0: no match); the next search starts
\* behind a match
RECURSIVE FindIter(_, _, _)
FindIter(MatchLen(_, _), text, i) ==
    IF i > Len(text) THEN <<>>
    ELSE IF MatchLen(text, i) > 0
    THEN <<i>> \o Then(i + MatchLen(text, i),
                        LAMBDA next : FindIter(MatchLen, text, next))
    ELSE FindIter(MatchLen, text, i + 1)

\* \bthis\.(w)\s*=\s*new\s+(w)\s*\(
ThisAssignNew(text, i) ==
    IF /\ TokenAt(text, i) = "this" /\ TokenAt(text, i + 1) = "."
       /\ IsWord(TokenAt(text, i + 2)) /\ TokenAt(text, i + 3) = "="
       /\ TokenAt(text, i + 4) = "new" /\ IsWord(TokenAt(text, i + 5))
       /\ TokenAt(text, i + 6) = "("
    THEN 7 ELSE 0

\* \bnew\s+(w)\s*\(
NewCall(text, i) ==
    IF /\ TokenAt(text, i) = "new" /\ IsWord(TokenAt(text, i + 1))
       /\ TokenAt(text, i + 2) = "("
    THEN 3 ELSE 0

\* \b(w)\s*\.\s*w\s*\(
StaticCall(text, i) ==
    IF /\ IsWord(TokenAt(text, i)) /\ TokenAt(text, i + 1) = "."
       /\ IsWord(TokenAt(text, i + 2)) /\ TokenAt(text, i + 3) = "("
    THEN 4 ELSE 0

\* \b(w)\s+w\s*(?:[=;])
LocalDeclaration(text, i) ==
    IF /\ IsWord(TokenAt(text, i)) /\ IsWord(TokenAt(text, i + 1))
       /\ TokenAt(text, i + 2) \in {"=", ";"}
    THEN 3 ELSE 0

\* the captured word k tokens behind each match of a pattern
Captures(MatchLen(_, _), text, k) ==
    LET at == FindIter(MatchLen, text, 1)
    IN  [n \in DOMAIN at |-> text[at[n] + k]]

EdgesFrom(class_name, targets, rel_type) ==
    [n \in DOMAIN targets |-> Edge(class_name, targets[n], rel_type, "")]

\* the parameter types of the methods of a class, in order
RECURSIVE ParameterTypes(_)
ParameterTypes(methods) ==
    IF methods = <<>> THEN <<>>
    ELSE Head(methods).parameters \o ParameterTypes(Tail(methods))

----------------------------------------------------------------------------
(* JavaAnalyzer                                                            *)
(*                                                                         *)
(* An edge appended without a source key has source "".                    *)

\* the position behind the brace that closes the class body, 0 if none
RECURSIVE ClassBodyEnd(_, _, _)
ClassBodyEnd(source, pos, brace_count) ==
    IF brace_count = 0 THEN pos
    ELSE IF pos > Len(source) THEN 0
    ELSE IF source[pos] = "{" THEN ClassBodyEnd(source, pos + 1, brace_count + 1)
    ELSE IF source[pos] = "}" THEN ClassBodyEnd(source, pos + 1, brace_count - 1)
    ELSE ClassBodyEnd(source, pos + 1, brace_count)

\* JavaAnalyzer._extract_class_content; <<>> for None
extract_class_content(source, class_name) ==
    LET m == {i \in DOMAIN source :
                 source[i] = "class" /\ TokenAt(source, i + 1) = class_name}
    IN  IF m = {} THEN <<>>
        ELSE LET first == CHOOSE i \in m : \A k \in m : i <= k
                 braces == {j \in (first + 2)..Len(source) : source[j] = "{"}
             IN  IF braces = {} THEN <<>>
                 ELSE LET brace_start == CHOOSE j \in braces :
                                             \A k \in braces : j <= k
                          pos == ClassBodyEnd(source, brace_start + 1, 1)
                      IN  IF pos = 0 THEN <<>>
                          ELSE SubSeq(source, brace_start, pos - 1)

JavaPrimitives ==
    {"int", "long", "float", "double", "boolean", "char", "byte", "short",
     "String", "void"}

HeuristicEdges(class_name, targets, rel_type) ==
    [n \in DOMAIN targets |->
        Edge(class_name, targets[n], rel_type, "heuristic")]

\* JavaAnalyzer._heuristic_analysis: the added fields and the edges appended
\* to self.compositions and self.usages
java_heuristic_analysis(source, class_name) ==
    LET class_text == extract_class_content(source, class_name)
        NotSelf(w) == w # class_name
        NotThis(w) == w # class_name /\ w # "this" /\ w # "super"
        NotPrimitive(w) == w # class_name /\ w \notin JavaPrimitives
        this_fields == FindIter(ThisAssignNew, class_text, 1)
    IN  IF class_text = <<>>
        THEN [fields |-> {}, compositions |-> <<>>, usages |-> <<>>]
        ELSE [fields |-> {<<class_text[this_fields[n] + 2], ":", " ",
                            class_text[this_fields[n] + 5]>> :
                             n \in DOMAIN this_fields},
              compositions |->
                  HeuristicEdges(class_name,
                      SelectSeq(Captures(ThisAssignNew, class_text, 5),
                                NotSelf),
                      "composition"),
              usages |->
                  HeuristicEdges(class_name,
                      SelectSeq(Captures(NewCall, class_text, 1), NotSelf),
                      "uses")
                  \o HeuristicEdges(class_name,
                      SelectSeq(Captures(StaticCall, class_text, 0), NotThis),
                      "uses")
                  \o HeuristicEdges(class_name,
                      SelectSeq(Captures(LocalDeclaration, class_text, 0),
                                NotPrimitive),
                      "uses")]

\* _extract_inheritance and _extract_implements
java_extract_inheritance(a, cls) ==
    [a EXCEPT !.relationships =
        @ \o (IF cls.extends # ""
              THEN <<Edge(cls.extends, cls.name, "extends", "heuristic")>>
              ELSE <<>>)
          \o [n \in DOMAIN cls.implements |->
                 Edge(cls.implements[n], cls.name, "implements",
                      "heuristic")]]

\* _extract_fields: the "name: type" strings of the declared fields
java_extract_fields(cls) ==
    UNION {{<<cls.fields[k].names[n], ":", " ", cls.fields[k].type>> :
               n \in DOMAIN cls.fields[k].names} : k \in DOMAIN cls.fields}

\* _extract_methods: the usages it appends for the parameter types, which
\* carry no source key
java_extract_methods(a, cls) ==
    [a EXCEPT !.usages =
        @ \o EdgesFrom(cls.name, ParameterTypes(cls.methods), "uses")]

\* JavaAnalyzer._analyze_class: [a, class_dict]
java_analyze_class(a, cls, source, package) ==
    LET class_name == cls.name
        h == java_heuristic_analysis(source, class_name)
        a1 == java_extract_methods(java_extract_inheritance(a, cls), cls)
        fields == java_extract_fields(cls) \cup h.fields
        is_abstract == "abstract" \in cls.modifiers
    IN  [a |-> [a1 EXCEPT !.compositions = @ \o h.compositions,
                          !.usages = @ \o h.usages],
         class_dict |->
             create_class_dict(class_name, Sorted(fields),
                 Sorted({cls.methods[k].name : k \in DOMAIN cls.methods}),
                 IF is_abstract THEN "abstract" ELSE "class", is_abstract,
                 package)]

\* JavaAnalyzer._analyze_interface: [a, class_dict]
java_analyze_interface(a, intf, package) ==
    [a |-> [a EXCEPT !.relationships =
                @ \o [n \in DOMAIN intf.extends |->
                         Edge(intf.extends[n], intf.name, "extends",
                              "heuristic")]],
     class_dict |->
         create_class_dict(intf.name, <<>>,
             Sorted({intf.methods[k].name : k \in DOMAIN intf.methods}),
             "interface", TRUE, package)]

RECURSIVE JavaClassesLoop(_, _, _, _, _)
JavaClassesLoop(a, nodes, source, package, classes) ==
    IF nodes = <<>> THEN [a |-> a, classes |-> classes]
    ELSE Then(java_analyze_class(a, Head(nodes), source, package),
              LAMBDA r :
                  JavaClassesLoop(add_class_name(r.a, r.class_dict.class),
                                  Tail(nodes), source, package,
                                  Append(classes, r.class_dict)))

RECURSIVE JavaInterfacesLoop(_, _, _, _)
JavaInterfacesLoop(a, nodes, package, classes) ==
    IF nodes = <<>> THEN [a |-> a, classes |-> classes, raised |-> FALSE]
    ELSE Then(java_analyze_interface(a, Head(nodes), package),
              LAMBDA r :
                  JavaInterfacesLoop(add_class_name(r.a, r.class_dict.class),
                                     Tail(nodes), package,
                                     Append(classes, r.class_dict)))

\* JavaAnalyzer.analyze_file: [a, classes, raised]
JavaAnalyzeFile(a, file, package_path) ==
    IF file.fault # "none"
    THEN [a |-> a, classes |-> <<>>, raised |-> FALSE]
    ELSE LET package == IF file.package # "" THEN file.package
                        ELSE package_path
         IN  Then(JavaClassesLoop([a EXCEPT !.imports = @ \cup file.imports],
                                  file.classes, file.source, package, <<>>),
                  LAMBDA r : JavaInterfacesLoop(r.a, file.interfaces, package,
                                                r.classes))

----------------------------------------------------------------------------
(* CSharpAnalyzer and the brace matching of the regex analyzers            *)
(*                                                                         *)
(* A C# source file is [path, fault, source]: fault says whether open()    *)
(* raises, source is the text as a token sequence.  White space stands     *)
(* between two adjacent word tokens and nowhere else, unless the token " " *)
(* says so.  A class name or base name is the string of one word token;    *)
(* no identifier of the input files contains the text "abstract".          *)

\* str.find(tok, start): the first position at or behind start, 0 for -1
Find(source, tok, start) ==
    LET at == {i \in start..Len(source) : source[i] = tok}
    IN  IF at = {} THEN 0 ELSE CHOOSE i \in at : \A k \in at : i <= k

\* a scan that stops at the first closing brace
RECURSIVE BraceLoopFirstClose(_, _, _)
BraceLoopFirstClose(source, pos, brace_count) ==
    IF pos <= Len(source) /\ brace_count > 0
    THEN BraceLoopFirstClose(source, pos + 1,
             IF source[pos] = "}" THEN 0 ELSE brace_count)
    ELSE [pos |-> pos, brace_count |-> brace_count]

\* the while loop of _extract_class_content: the values of pos and
\* brace_count when it is left
RECURSIVE BraceLoop(_, _, _)
BraceLoop(source, pos, brace_count) ==
    IF pos <= Len(source) /\ brace_count > 0
    THEN BraceLoop(source, pos + 1,
             IF source[pos] = "{" THEN brace_count + 1
             ELSE IF source[pos] = "}" THEN brace_count - 1
             ELSE brace_count)
    ELSE [pos |-> pos, brace_count |-> brace_count]

\* CSharpAnalyzer._extract_class_content; <<>> for ""
cs_extract_class_content(source, start_pos) ==
    LET brace_start == Find(source, "{", start_pos)
        end == BraceLoop(source, brace_start + 1, 1)
    IN  IF brace_start = 0 THEN <<>>
        ELSE IF end.brace_count = 0
        THEN SubSeq(source, brace_start, end.pos - 1)
        ELSE <<>>

\* TypeScriptAnalyzer._extract_class_content; <<>> for ""
ts_extract_class_content(source, start_pos) ==
    LET brace_start == Find(source, "{", start_pos)
        end == BraceLoop(source, brace_start + 1, 1)
    IN  IF brace_start = 0 THEN <<>>
        ELSE IF end.brace_count = 0
        THEN SubSeq(source, brace_start, end.pos - 1)
        ELSE <<>>

\* re.sub(r'<[^>]*>', '', s)
RECURSIVE RemoveGenerics(_)
RemoveGenerics(s) ==
    IF s = <<>> THEN <<>>
    ELSE IF Head(s) = "<" /\ Find(s, ">", 2) # 0
    THEN RemoveGenerics(SubSeq(s, Find(s, ">", 2) + 1, Len(s)))
    ELSE <<Head(s)>> \o RemoveGenerics(Tail(s))

\* s.split('.')[-1]
LastComponent(s) == LET parts == Split(s, ".") IN parts[Len(parts)]

UpperLetters ==
    {"A", "B", "C", "D", "E", "F", "G", "H", "I", "J", "K", "L", "M", "N",
     "O", "P", "Q", "R", "S", "T", "U", "V", "W", "X", "Y", "Z"}

\* one part of the base list in _extract_bases: [a, raised]; base_name[1]
\* raises IndexError for the name "I"
CsBase(a, part, class_name) ==
    LET base_name ==
            Join(LastComponent(Strip(RemoveGenerics(Strip(part)))))
    IN  IF base_name = "" THEN [a |-> a, raised |-> FALSE]
        ELSE IF Len(base_name) >= 1 /\ SubSeq(base_name, 1, 1) = "I"
        THEN IF Len(base_name) < 2 THEN [a |-> a, raised |-> TRUE]
             ELSE IF SubSeq(base_name, 2, 2) \in UpperLetters
             THEN [a |-> add_relationship(a, base_name, class_name,
                                          "implements"),
                   raised |-> FALSE]
             ELSE [a |-> add_relationship(a, base_name, class_name,
                                          "extends"),
                   raised |-> FALSE]
        ELSE [a |-> add_relationship(a, base_name, class_name, "extends"),
              raised |-> FALSE]

\* CSharpAnalyzer._extract_bases over the parts of bases_str.split(',')
RECURSIVE cs_extract_bases(_, _, _)
cs_extract_bases(a, parts, class_name) ==
    IF parts = <<>> THEN [a |-> a, raised |-> FALSE]
    ELSE Then(CsBase(a, Head(parts), class_name),
              LAMBDA r : IF r.raised THEN r
                         ELSE cs_extract_bases(r.a, Tail(parts), class_name))

\* the text of a token sequence with the white space between two words
RECURSIVE Text(_)
Text(s) ==
    IF s = <<>> THEN ""
    ELSE IF Len(s) >= 2 /\ IsWord(s[1]) /\ IsWord(s[2])
    THEN s[1] \o " " \o Text(Tail(s))
    ELSE s[1] \o Text(Tail(s))

\* class_pattern and interface_pattern at token i: [len, name, bases],
\* len 0 when there is no match, bases <<>> when group 2 is None
TypePattern(text, i, keyword, modifiers) ==
    LET k == IF TokenAt(text, i) \in modifiers /\ TokenAt(text, i + 1) = keyword
             THEN i + 1 ELSE i
        brace == Find(text, "{", k + 4)
        none == [len |-> 0, name |-> "", bases |-> <<>>]
    IN  IF ~(TokenAt(text, k) = keyword /\ IsWord(TokenAt(text, k + 1)))
        THEN none
        ELSE IF TokenAt(text, k + 2) = "{"
        THEN [len |-> k + 3 - i, name |-> text[k + 1], bases |-> <<>>]
        ELSE IF /\ TokenAt(text, k + 2) = ":" /\ k + 3 <= Len(text)
                /\ text[k + 3] # "{" /\ brace # 0
        THEN [len |-> brace + 1 - i, name |-> text[k + 1],
              bases |-> SubSeq(text, k + 3, brace - 1)]
        ELSE none

CsClassModifiers ==
    {"public", "private", "protected", "internal", "abstract", "static",
     "sealed"}

CsInterfaceModifiers == {"public", "private", "protected", "internal"}

CsClassPattern(text, i) == TypePattern(text, i, "class", CsClassModifiers).len

CsInterfacePattern(text, i) ==
    TypePattern(text, i, "interface", CsInterfaceModifiers).len

\* [A-Za-z0-9_<>\[\],\s]
InTypeClass(tok) == IsWord(tok) \/ tok \in {"<", ">", "[", "]", ",", " "}

\* the first position at or behind i whose token is outside the class
RECURSIVE TypeRunEnd(_, _)
TypeRunEnd(text, i) ==
    IF i <= Len(text) /\ InTypeClass(text[i]) THEN TypeRunEnd(text, i + 1)
    ELSE i

\* field_pattern at token i: the number of tokens matched, 0 for no match
CsFieldPattern(text, i) ==
    LET e == TypeRunEnd(text, i + 1)
        semi == Find(text, ";", e + 2)
    IN  IF /\ TokenAt(text, i) \in {"public", "private", "protected",
                                    "internal", "static", "readonly"}
           /\ IsWord(TokenAt(text, i + 1))
           /\ e - 1 >= i + 2 /\ IsWord(text[e - 1])
           /\ (IsWord(text[e - 2]) \/ text[e - 2] = " ")
        THEN IF TokenAt(text, e) = ";" THEN e + 1 - i
             ELSE IF /\ TokenAt(text, e) = "=" /\ e + 1 <= Len(text)
                     /\ text[e + 1] # ";" /\ semi # 0
             THEN semi + 1 - i
             ELSE 0
        ELSE 0

\* method_pattern at token i
CsMethodPattern(text, i) ==
    LET e == TypeRunEnd(text, i) IN
    IF /\ IsWord(TokenAt(text, i)) /\ TokenAt(text, e) = "("
       /\ e - 1 > i /\ IsWord(text[e - 1])
       /\ (IsWord(text[e - 2]) \/ text[e - 2] = " ")
    THEN e + 1 - i ELSE 0

\* \bthis\.(w)\s*=\s*[^;]+;
ThisAssign(text, i) ==
    LET semi == Find(text, ";", i + 5) IN
    IF /\ TokenAt(text, i) = "this" /\ TokenAt(text, i + 1) = "."
       /\ IsWord(TokenAt(text, i + 2)) /\ TokenAt(text, i + 3) = "="
       /\ i + 4 <= Len(text) /\ text[i + 4] # ";" /\ semi # 0
    THEN semi + 1 - i ELSE 0

\* CSharpAnalyzer._extract_fields: [a, fields]
cs_extract_fields(a, class_content, class_name) ==
    LET at == FindIter(CsFieldPattern, class_content, 1)
        TypeOf(i) ==
            Strip(SubSeq(class_content, i + 1,
                         TypeRunEnd(class_content, i + 1) - 2))
        NameOf(i) == class_content[TypeRunEnd(class_content, i + 1) - 1]
        CleanType(i) == Text(LastComponent(Strip(RemoveGenerics(TypeOf(i)))))
        Candidate(n) == CleanType(at[n]) # ""
                        /\ CleanType(at[n]) # class_name
        kept == SelectSeq([n \in DOMAIN at |-> n], Candidate)
    IN  [a |-> [a EXCEPT !.compositions =
                   @ \o [n \in DOMAIN kept |->
                            Edge(class_name, CleanType(at[kept[n]]),
                                 "composition", "heuristic")]],
         fields |-> {<<NameOf(at[n]), ":", " ">> \o TypeOf(at[n]) :
                        n \in DOMAIN at}]

CsKeywords ==
    {"if", "for", "while", "switch", "try", "catch", "foreach", "using",
     "lock"}

\* CSharpAnalyzer._extract_methods
cs_extract_methods(class_content) ==
    LET at == FindIter(CsMethodPattern, class_content, 1)
    IN  {class_content[TypeRunEnd(class_content, at[n]) - 1] :
            n \in DOMAIN at} \ CsKeywords

\* the second loop of _heuristic_analysis: the names added to fields
RECURSIVE ThisAssignFields(_, _)
ThisAssignFields(names, fields) ==
    IF names = <<>> THEN fields
    ELSE ThisAssignFields(Tail(names),
             IF \E f \in fields :
                    \/ f = <<Head(names)>>
                    \/ (Len(f) >= 2 /\ f[1] = Head(names) /\ f[2] = ":")
             THEN fields
             ELSE fields \cup {<<Head(names)>>})

\* CSharpAnalyzer._heuristic_analysis: [a, fields]
cs_heuristic_analysis(a, class_content, class_name, fields) ==
    LET NotSelf(w) == w # "" /\ w # class_name
        NotThis(w) == w # "" /\ w # class_name /\ w # "this"
        this_fields == FindIter(ThisAssignNew, class_content, 1)
        fields1 == fields \cup
                   {<<class_content[this_fields[n] + 2], ":", " ",
                      class_content[this_fields[n] + 5]>> :
                        n \in DOMAIN this_fields}
    IN  [a |-> [a EXCEPT
                 !.compositions =
                     @ \o HeuristicEdges(class_name,
                              SelectSeq(Captures(ThisAssignNew, class_content,
                                                 5), NotSelf),
                              "composition"),
                 !.usages =
                     @ \o HeuristicEdges(class_name,
                              SelectSeq(Captures(NewCall, class_content, 1),
                                        NotSelf), "uses")
                       \o HeuristicEdges(class_name,
                              SelectSeq(Captures(StaticCall, class_content,
                                                 0), NotThis), "uses")
                       \o HeuristicEdges(class_name,
                              SelectSeq(Captures(LocalDeclaration,
                                                 class_content, 0), NotSelf),
                              "uses")],
         fields |-> ThisAssignFields(Captures(ThisAssign, class_content, 2),
                                     fields1)]

\* the position behind the dotted name [A-Za-z_][A-Za-z0-9_.]* at token i
RECURSIVE DottedEnd(_, _)
DottedEnd(text, i) ==
    IF TokenAt(text, i + 1) # "." THEN i + 1
    ELSE IF IsWord(TokenAt(text, i + 2)) THEN DottedEnd(text, i + 2)
    ELSE i + 2

\* CSharpAnalyzer._extract_namespace; "" for None
cs_extract_namespace(source) ==
    LET at == {i \in DOMAIN source :
                  source[i] = "namespace" /\ IsWord(TokenAt(source, i + 1))}
        first == CHOOSE i \in at : \A k \in at : i <= k
    IN  IF at = {} THEN ""
        ELSE Join(SubSeq(source, first + 1, DottedEnd(source, first + 1) - 1))

\* \busing\s+(dotted name)\s*;
UsingPattern(text, i) ==
    IF /\ TokenAt(text, i) = "using" /\ IsWord(TokenAt(text, i + 1))
       /\ TokenAt(text, DottedEnd(text, i + 1)) = ";"
    THEN DottedEnd(text, i + 1) + 1 - i ELSE 0

\* CSharpAnalyzer._extract_imports
cs_extract_imports(a, source) ==
    [a EXCEPT !.imports =
        @ \cup Range(Captures(UsingPattern, source, 1))]

\* one class match of _analyze_classes: [a, class_dict, raised]
cs_analyze_class(a, source, i, namespace) ==
    LET m == TypePattern(source, i, "class", CsClassModifiers)
        class_name == m.name
        a1 == add_class_name(a, class_name)
        b == IF m.bases # <<>>
             THEN cs_extract_bases(a1, Split(m.bases, ","), class_name)
             ELSE [a |-> a1, raised |-> FALSE]
        class_content == cs_extract_class_content(source, i)
        f == cs_extract_fields(b.a, class_content, class_name)
        methods == cs_extract_methods(class_content)
        h == cs_heuristic_analysis(f.a, class_content, class_name, f.fields)
        is_abstract == "abstract" \in Range(SubSeq(source, i, i + m.len - 1))
    IN  IF b.raised
        THEN [a |-> b.a, class_dict |-> <<>>, raised |-> TRUE]
        ELSE [a |-> h.a,
              class_dict |->
                  create_class_dict(class_name, Sorted(h.fields),
                      Sorted(methods),
                      IF is_abstract THEN "abstract" ELSE "class",
                      is_abstract, namespace),
              raised |-> FALSE]

\* CSharpAnalyzer._analyze_classes over the matches at: [a, classes, raised]
RECURSIVE cs_analyze_classes(_, _, _, _, _)
cs_analyze_classes(a, source, at, namespace, classes) ==
    IF at = <<>> THEN [a |-> a, classes |-> classes, raised |-> FALSE]
    ELSE Then(cs_analyze_class(a, source, Head(at), namespace),
              LAMBDA r :
                  IF r.raised
                  THEN [a |-> r.a, classes |-> <<>>, raised |-> TRUE]
                  ELSE cs_analyze_classes(r.a, source, Tail(at), namespace,
                                          Append(classes, r.class_dict)))

\* the base interfaces of one interface match
RECURSIVE CsInterfaceBases(_, _, _)
CsInterfaceBases(a, parts, interface_name) ==
    IF parts = <<>> THEN a
    ELSE LET base_clean ==
                 Join(Strip(LastComponent(Strip(Head(parts)))))
         IN  CsInterfaceBases(
                 IF base_clean # ""
                 THEN add_relationship(a, base_clean, interface_name,
                                       "extends")
                 ELSE a,
                 Tail(parts), interface_name)

\* CSharpAnalyzer._analyze_interfaces over the matches at: [a, classes]
RECURSIVE cs_analyze_interfaces(_, _, _, _, _)
cs_analyze_interfaces(a, source, at, namespace, classes) ==
    IF at = <<>> THEN [a |-> a, classes |-> classes, raised |-> FALSE]
    ELSE LET m == TypePattern(source, Head(at), "interface",
                              CsInterfaceModifiers)
             a1 == CsInterfaceBases(add_class_name(a, m.name),
                                    Split(m.bases, ","), m.name)
             methods == cs_extract_methods(
                            cs_extract_class_content(source, Head(at)))
         IN  Then(a1, LAMBDA a2 :
                 cs_analyze_interfaces(a2, source, Tail(at), namespace,
                     Append(classes,
                            create_class_dict(m.name, <<>>, Sorted(methods),
                                              "interface", TRUE,
                                              namespace))))

\* the try block of CSharpAnalyzer.analyze_file: [a, classes, raised]
CsAnalyzeSource(a, file, package_path) ==
    IF file.fault # "none"
    THEN [a |-> a, classes |-> <<>>, raised |-> TRUE]
    ELSE LET namespace == cs_extract_namespace(file.source)
             package == IF namespace # "" THEN namespace ELSE package_path
             a1 == cs_extract_imports(
                       IF namespace # ""
                       THEN [a EXCEPT !.namespaces = @ \cup {namespace}]
                       ELSE a,
                       file.source)
         IN  Then(cs_analyze_classes(a1, file.source,
                      FindIter(CsClassPattern, file.source, 1), package,
                      <<>>),
                  LAMBDA r :
                      IF r.raised THEN r
                      ELSE cs_analyze_interfaces(r.a, file.source,
                               FindIter(CsInterfacePattern, file.source, 1),
                               package, r.classes))

\* CSharpAnalyzer.analyze_file: [a, classes, raised, caught]; the except
\* clause logs the exception, caught says that it did, and the list that
\* is returned is the empty one of the first line
CsAnalyzeFile(a, file, package_path) ==
    Then(CsAnalyzeSource(a, file, package_path),
         LAMBDA r : [a |-> r.a,
                     classes |-> IF r.raised THEN <<>> ELSE r.classes,
                     raised |-> FALSE, caught |-> r.raised])

----------------------------------------------------------------------------
(* AnalyzerFactory                                                         *)

ANALYZER_MAP ==
    [ext \in {".py", ".java", ".cs", ".ts", ".tsx", ".js", ".jsx", ".cpp",
              ".cc", ".cxx", ".c", ".h", ".hpp"} |->
        IF ext = ".py" THEN "PythonAnalyzer"
        ELSE IF ext = ".java" THEN "JavaAnalyzer"
        ELSE IF ext = ".cs" THEN "CSharpAnalyzer"
        ELSE IF ext \in {".ts", ".tsx", ".js", ".jsx"} THEN "TypeScriptAnalyzer"
        ELSE "CppAnalyzer"]

\* keys of self.analyzers in insertion order, and the class behind each
Languages == <<"python", "java", "csharp", "typescript", "cpp">>

AnalyzerClass ==
    [python |-> "PythonAnalyzer", java |-> "JavaAnalyzer",
     csharp |-> "CSharpAnalyzer", typescript |-> "TypeScriptAnalyzer",
     cpp |-> "CppAnalyzer"]

\* str.lower() on the extensions that occur
Lower(s) ==
    IF s = ".PY" THEN ".py"
    ELSE s

\* _get_extension: os.path.splitext(file_path)[1].lower(); a path is
\* [root, ext]
get_extension(file_path) == Lower(file_path.ext)

\* the five objects _initialize_analyzers creates, identities first_id ..
InitializeAnalyzers(first_id) ==
    [l \in Range(Languages) |->
        NewAnalyzer(first_id + Index(Languages, l) - 1, AnalyzerClass[l])]

\* AnalyzerFactory.__init__
FactoryInit ==
    /\ analyzers = InitializeAnalyzers(1)
    /\ next_id = 1 + Len(Languages)
    /\ f_gen = 0
    /\ f_op = "init"
    /\ f_result = <<>>
    /\ f_concat = <<>>
    /\ f_log = <<>>

NoAnalyzer == NewAnalyzer(0, "None")

MaxAnalyses == 3
MaxResets == 1

\* the isinstance scan of get_analyzer
RECURSIVE FindInstance(_, _)
FindInstance(langs, analyzer_class) ==
    IF langs = <<>> THEN NoAnalyzer
    ELSE IF analyzers[Head(langs)].cls = analyzer_class
    THEN analyzers[Head(langs)]
    ELSE FindInstance(Tail(langs), analyzer_class)

\* get_analyzer that builds a new object of the mapped class
get_analyzer_new_instance(file_path) ==
    LET ext == get_extension(file_path) IN
    IF ext \notin DOMAIN ANALYZER_MAP THEN NoAnalyzer
    ELSE NewAnalyzer(next_id, ANALYZER_MAP[ext])

\* get_analyzer: the analyzer object, NoAnalyzer for None
get_analyzer(file_path) ==
    LET ext == get_extension(file_path) IN
    IF ext \notin DOMAIN ANALYZER_MAP THEN NoAnalyzer
    ELSE FindInstance(Languages, ANALYZER_MAP[ext])

\* analyzer.analyze_file by the class of the analyzer
AnalyzerAnalyzeFile(a, file, package_path) ==
    IF a.cls = "JavaAnalyzer" THEN JavaAnalyzeFile(a, file, package_path)
    ELSE IF a.cls = "CSharpAnalyzer"
    THEN CsAnalyzeFile(a, file, package_path)
    ELSE PyAnalyzeFile(a, file, package_path)

\* the dictionary after a method has changed the object a in place
Mutated(a) ==
    [l \in DOMAIN analyzers |->
        IF analyzers[l].id = a.id THEN a ELSE analyzers[l]]

\* AnalyzerFactory.analyze_file
analyze_file(file, package_path) ==
    /\ Len(f_log) < MaxAnalyses
    /\ LET analyzer == get_analyzer(file.path) IN
       IF analyzer = NoAnalyzer
       THEN /\ f_result' = <<>>
            /\ f_log' = Append(f_log, [file |-> file, id |-> 0,
                                       gen |-> f_gen, classes |-> <<>>])
            /\ UNCHANGED analyzers
       ELSE \E r \in {AnalyzerAnalyzeFile(analyzer, file, package_path)} :
            LET classes == IF r.raised THEN <<>> ELSE r.classes
            IN  /\ analyzers' = Mutated(r.a)
                /\ f_result' = classes
                /\ f_log' = Append(f_log, [file |-> file, id |-> analyzer.id,
                                           gen |-> f_gen,
                                           classes |-> classes])
    /\ f_op' = "analyze_file"
    /\ UNCHANGED <<next_id, f_gen, f_concat>>

\* AnalyzerFactory.detect_all_relationships
RECURSIVE AllRelationships(_, _)
AllRelationships(langs, all) ==
    IF langs = <<>> THEN <<>>
    ELSE DetectRelationships(analyzers[Head(langs)], all)
         \o AllRelationships(Tail(langs), all)

RECURSIVE SeenLoop(_, _, _)
SeenLoop(rels, seen, unique_relationships) ==
    IF rels = <<>> THEN unique_relationships
    ELSE LET rel == Head(rels)
             key == <<rel.from, rel.to, rel.type>>
         IN  IF key \notin seen
             THEN Then(seen \cup {key},
                       LAMBDA seen1 : SeenLoop(Tail(rels), seen1,
                                          Append(unique_relationships, rel)))
             ELSE SeenLoop(Tail(rels), seen, unique_relationships)

detect_all_relationships(all) ==
    /\ f_concat' = AllRelationships(Languages, all)
    /\ f_result' = SeenLoop(f_concat', {}, <<>>)
    /\ f_op' = "detect_all_relationships"
    /\ UNCHANGED <<analyzers, next_id, f_gen, f_log>>

\* reset_all_analyzers that keeps the objects it already has
reset_all_analyzers_keeps_objects ==
    /\ f_gen < MaxResets
    /\ f_gen' = f_gen + 1
    /\ f_op' = "reset_all_analyzers"
    /\ f_result' = <<>>
    /\ UNCHANGED <<analyzers, next_id, f_concat, f_log>>

\* AnalyzerFactory.reset_all_analyzers
reset_all_analyzers ==
    /\ f_gen < MaxResets
    /\ analyzers' = InitializeAnalyzers(next_id)
    /\ next_id' = next_id + Len(Languages)
    /\ f_gen' = f_gen + 1
    /\ f_op' = "reset_all_analyzers"
    /\ f_result' = <<>>
    /\ UNCHANGED <<f_concat, f_log>>

----------------------------------------------------------------------------
(* analyze.py: analyze_repo and its worker tasks                           *)
(*                                                                         *)
(* The edges the workers append carry no source ("" here) until            *)
(* _build_relations sets it.  A worker task is one call of process_file;   *)
(* the threads of the pool switch between the steps below: the start of a  *)
(* task up to the parse, the registration of a class with its bases, and   *)
(* the scan of the members of a class with the appends that follow it.     *)
(* class_info, the module sets and the endpoint list are not in the state. *)

max_workers == 8

MaxRuns == 2

\* str.endswith on the file name
EndsWith(file, ext) == file.path.ext = ext

\* _get_type_annotation of analyze.py
RECURSIVE repo_get_type_annotation(_)
repo_get_type_annotation(annotation) ==
    IF annotation.kind = "Name" THEN annotation.id
    ELSE IF annotation.kind = "Attribute" THEN annotation.id
    ELSE IF annotation.kind = "Subscript"
         THEN repo_get_type_annotation(annotation.value)
    ELSE "Any"

\* the bases loop of _analyze_python_file
RECURSIVE RepoBases(_, _, _)
RepoBases(rels, bases, class_name) ==
    IF bases = <<>> THEN rels
    ELSE RepoBases(
             IF Head(bases).kind \in {"Name", "Attribute"}
             THEN Append(rels, Edge(Head(bases).id, class_name, "extends", ""))
             ELSE rels,
             Tail(bases), class_name)

\* one subnode of ast.walk(item); m is [fields, compositions, usage_rels]
RECURSIVE RepoAssignTargets(_, _, _, _, _)
RepoAssignTargets(m, targets, callee, class_name, known) ==
    IF targets = <<>> THEN m
    ELSE Then(
             [m EXCEPT !.fields = @ \cup {<<Head(targets)>>},
                       !.compositions =
                           IF callee # "" /\ callee \in known
                              /\ callee # class_name
                           THEN @ \cup {callee} ELSE @],
             LAMBDA m1 : RepoAssignTargets(m1, Tail(targets), callee,
                                           class_name, known))

RepoMethodNode(m, subnode, class_name, known) ==
    LET m1 == IF subnode.kind = "AnnAssign" /\ subnode.self_attr # ""
              THEN [m EXCEPT !.fields = @ \cup
                      {<<subnode.self_attr, ":", " ",
                         repo_get_type_annotation(subnode.annotation)>>}]
              ELSE m
        m2 == IF subnode.kind = "Assign"
              THEN RepoAssignTargets(m1, subnode.self_attrs, subnode.callee,
                                     class_name, known)
              ELSE m1
        m3 == IF subnode.kind = "Call" /\ subnode.func # ""
                 /\ subnode.func \in known /\ subnode.func # class_name
              THEN [m2 EXCEPT !.compositions = @ \cup {subnode.func}]
              ELSE m2
    IN  IF subnode.kind = "Name" /\ subnode.id \in known
           /\ subnode.id # class_name
        THEN [m3 EXCEPT !.usage_rels =
                 Append(@, Edge(class_name, subnode.id, "uses", ""))]
        ELSE m3

RECURSIVE RepoMethodBody(_, _, _, _)
RepoMethodBody(m, nodes, class_name, known) ==
    IF nodes = <<>> THEN m
    ELSE Then(RepoMethodNode(m, Head(nodes), class_name, known),
              LAMBDA m1 : RepoMethodBody(m1, Tail(nodes), class_name, known))

\* the loop over node.body; m is [fields, methods, compositions, usage_rels]
RECURSIVE RepoMembers(_, _, _, _)
RepoMembers(m, body, class_name, known) ==
    IF body = <<>> THEN m
    ELSE LET item == Head(body) IN
         Then(
             IF item.kind = "AnnAssign" /\ item.id # ""
             THEN [m EXCEPT !.fields = @ \cup
                     {<<item.id, ":", " ",
                        repo_get_type_annotation(item.annotation)>>}]
             ELSE IF item.kind = "Assign"
             THEN [m EXCEPT !.fields = @ \cup
                     {<<item.ids[i]>> : i \in DOMAIN item.ids}]
             ELSE IF item.kind = "FunctionDef"
             THEN Then(RepoMethodBody(
                           [fields |-> m.fields,
                            compositions |-> m.compositions,
                            usage_rels |-> m.usage_rels],
                           item.nodes, class_name, known),
                       LAMBDA r :
                           [fields |-> r.fields,
                            methods |-> m.methods \cup {item.name},
                            compositions |-> r.compositions,
                            usage_rels |-> r.usage_rels])
             ELSE m,
             LAMBDA m1 : RepoMembers(m1, Tail(body), class_name, known))

RepoStereotype(node) ==
    IF \E i \in DOMAIN node.body :
          /\ node.body[i].kind = "FunctionDef"
          /\ node.body[i].decorators # {}
    THEN "abstract" ELSE "class"

\* the appends after the members of a class: names of "to" become edges
RECURSIVE RepoEdgesTo(_, _, _, _, _)
RepoEdgesTo(rels, targets, class_name, rel_type, allowed) ==
    IF targets = <<>> THEN rels
    ELSE RepoEdgesTo(
             IF Head(targets) \in allowed /\ Head(targets) # class_name
             THEN Append(rels, Edge(class_name, Head(targets), rel_type, ""))
             ELSE rels,
             Tail(targets), class_name, rel_type, allowed)

\* _build_relations
RECURSIVE UniqueRelationsLoop(_, _, _)
UniqueRelationsLoop(relations, seen, unique_relations) ==
    IF relations = <<>> THEN unique_relations
    ELSE LET rel == Head(relations)
             key == <<rel.from, rel.to, rel.type>>
         IN  IF key \notin seen
             THEN Then(seen \cup {key},
                       LAMBDA seen1 : UniqueRelationsLoop(Tail(relations),
                                          seen1, Append(unique_relations, rel)))
             ELSE UniqueRelationsLoop(Tail(relations), seen, unique_relations)

build_relations(inheritance, composition, dependency, usage, names) ==
    LET Known(rel) == rel.from \in names /\ rel.to \in names
        kept == SelectSeq(inheritance \o composition \o dependency \o usage,
                          Known)
        relations == [i \in DOMAIN kept |->
                         [kept[i] EXCEPT !.source = "heuristic"]]
    IN  UniqueRelationsLoop(relations, {}, <<>>)

----------------------------------------------------------------------------
(* analyze.py: Java files                                                  *)

\* the brace matching of _extract_java_class_content from the opening brace
RECURSIVE BraceContent(_, _, _)
BraceContent(source, i, brace) ==
    IF i > Len(source) THEN <<>>
    ELSE IF source[i] = "{"
    THEN (IF brace + 1 > 1 THEN <<"{">> ELSE <<>>)
         \o BraceContent(source, i + 1, brace + 1)
    ELSE IF source[i] = "}"
    THEN IF brace = 1 THEN <<>>
         ELSE <<"}">> \o BraceContent(source, i + 1, brace - 1)
    ELSE (IF brace >= 1 THEN <<source[i]>> ELSE <<>>)
         \o BraceContent(source, i + 1, brace)

\* _extract_java_class_content: "class Name ... {", else the same with
\* interface or record, else ''
extract_java_class_content(source, class_name) ==
    LET Starts(kw) ==
            {i \in DOMAIN source :
                /\ source[i] \in kw
                /\ TokenAt(source, i + 1) = class_name
                /\ \E j \in (i + 2)..Len(source) : source[j] = "{"}
        m == IF Starts({"class"}) # {} THEN Starts({"class"})
             ELSE Starts({"class", "interface", "record"})
    IN  IF m = {} THEN <<>>
        ELSE LET first == CHOOSE i \in m : \A k \in m : i <= k
                 start == CHOOSE j \in (first + 2)..Len(source) :
                              /\ source[j] = "{"
                              /\ \A k \in (first + 2)..(j - 1) : source[k] # "{"
             IN  BraceContent(source, start, 0)

\* _analyze_java_file, one class of the class loop: what it adds to the
\* shared lists and the class entry
JavaClass(file, cls, package_path) ==
    LET class_name == cls.name
        NotSelf(w) == w # class_name
        declared == UNION {{<<cls.fields[k].names[n], ":", " ",
                               cls.fields[k].type>> :
                                 n \in DOMAIN cls.fields[k].names} :
                              k \in DOMAIN cls.fields}
        class_text == extract_java_class_content(file.source, class_name)
        this_fields == FindIter(ThisAssignNew, class_text, 1)
        assigned == {<<class_text[this_fields[n] + 2], ":", " ",
                       class_text[this_fields[n] + 5]>> :
                        n \in DOMAIN this_fields}
        fields == declared \cup assigned
        compositions ==
            {cls.fields[k].type : k \in DOMAIN cls.fields}
            \cup {class_text[this_fields[n] + 5] : n \in
                    {k \in DOMAIN this_fields :
                        class_text[this_fields[k] + 5] # class_name}}
        stereotype == IF "abstract" \in cls.modifiers THEN "abstract"
                      ELSE "class"
    IN  [inheritance |->
             (IF cls.extends # ""
              THEN <<Edge(cls.extends, class_name, "extends", "")>>
              ELSE <<>>)
             \o [n \in DOMAIN cls.implements |->
                    Edge(cls.implements[n], class_name, "implements", "")],
         usage |->
             EdgesFrom(class_name, ParameterTypes(cls.methods), "uses")
             \o EdgesFrom(class_name,
                    SelectSeq(Captures(NewCall, class_text, 1), NotSelf),
                    "uses")
             \o EdgesFrom(class_name,
                    SelectSeq(Captures(StaticCall, class_text, 0), NotSelf),
                    "uses")
             \o EdgesFrom(class_name,
                    SelectSeq(Captures(LocalDeclaration, class_text, 0),
                              NotSelf),
                    "uses"),
         composition |->
             EdgesFrom(class_name, SetToSeq(compositions), "composition"),
         dependency |->
             EdgesFrom(class_name, SetToSeq(file.imports), "dependency"),
         entry |->
             [class |-> class_name, fields |-> Sorted(fields),
              methods |-> Sorted({cls.methods[k].name :
                                     k \in DOMAIN cls.methods}),
              stereotype |-> stereotype,
              abstract |-> "abstract" \in cls.modifiers,
              package |-> IF file.package # "" THEN file.package
                          ELSE package_path]]

----------------------------------------------------------------------------
(* analyze.py: C and C++ files                                             *)
(*                                                                         *)
(* A C++ source file is [path, fault, source], source its text as a token  *)
(* sequence; white space stands exactly between two adjacent word tokens.  *)

CppExtensions == {".cpp", ".hpp", ".h", ".cc", ".cxx", ".hh", ".hxx"}

\* the last position of the longest run of tokens of one kind from j on
RECURSIVE RunEnd(_, _, _)
RunEnd(Tok(_), text, j) ==
    IF j \in DOMAIN text /\ Tok(text[j]) THEN RunEnd(Tok, text, j + 1)
    ELSE j - 1

BaseTok(tok) == IsWord(tok) \/ tok \in {",", ":"}

TypeTok(tok) == IsWord(tok) \/ tok \in {"<", ">", "[", "]"}

\* \b(class|struct)\s+(w)\s*(?::\s*([A-Za-z0-9_\s,:]+))?\s*{
TypeDeclaration(text, i) ==
    IF TokenAt(text, i) \in {"class", "struct"} /\ IsWord(TokenAt(text, i + 1))
    THEN IF TokenAt(text, i + 2) = "{" THEN 3
         ELSE IF /\ TokenAt(text, i + 2) = ":"
                 /\ RunEnd(BaseTok, text, i + 3) >= i + 3
                 /\ TokenAt(text, RunEnd(BaseTok, text, i + 3) + 1) = "{"
         THEN RunEnd(BaseTok, text, i + 3) + 2 - i
         ELSE 0
    ELSE 0

\* match.group(3) or ''
inheritance_str(text, i) ==
    IF TypeDeclaration(text, i) > 3
    THEN SubSeq(text, i + 3, i + TypeDeclaration(text, i) - 2)
    ELSE <<>>

\* re.sub(r'\b(public|private|protected|virtual)\s+', '', part)
RECURSIVE clean_part(_)
clean_part(part) ==
    IF part = <<>> THEN <<>>
    ELSE IF /\ Head(part) \in {"public", "private", "protected", "virtual"}
            /\ Len(part) > 1 /\ IsWord(part[2])
    THEN clean_part(Tail(part))
    ELSE <<Head(part)>> \o clean_part(Tail(part))

\* clean_part.split()[0] if clean_part.split() else clean_part
RECURSIVE FirstChunk(_)
FirstChunk(s) ==
    IF s = <<>> THEN <<>>
    ELSE IF Len(s) > 1 /\ IsWord(s[1]) /\ IsWord(s[2]) THEN <<s[1]>>
    ELSE <<Head(s)>> \o FirstChunk(Tail(s))

cpp_bases(class_name, parts) ==
    [n \in DOMAIN parts |->
        Edge(Join(FirstChunk(clean_part(Strip(parts[n])))), class_name, "extends",
             "")]

\* the position of the name of a member the type run from i leads to: a
\* word behind a word of the run, in front of an end token; 0 if none
MemberName(text, i, Ends(_, _)) ==
    LET names == {j \in (i + 1)..(RunEnd(TypeTok, text, i)) :
                     /\ IsWord(text[j - 1]) /\ IsWord(text[j])
                     /\ Ends(text, j + 1) > 0}
    IN  IF ~IsWord(TokenAt(text, i)) \/ names = {} THEN 0
        ELSE CHOOSE j \in names : \A k \in names : k <= j

\* \s*(?:\[[^\]]*\])?\s*;
FieldEnd(text, j) ==
    IF TokenAt(text, j) = ";" THEN 1
    ELSE IF TokenAt(text, j) = "["
    THEN LET close == {k \in (j + 1)..Len(text) : text[k] = "]"} IN
         IF close = {} THEN 0
         ELSE LET k == CHOOSE k \in close : \A l \in close : k <= l
              IN  IF TokenAt(text, k + 1) = ";" THEN k + 2 - j ELSE 0
    ELSE 0

\* \s*\(
MethodEnd(text, j) == IF TokenAt(text, j) = "(" THEN 1 ELSE 0

\* \b(?:[A-Za-z_][A-Za-z0-9_<>\[\]\s]*)\s+(w)\s*(?:\[[^\]]*\])?\s*;
FieldPattern(text, i) ==
    IF MemberName(text, i, FieldEnd) = 0 THEN 0
    ELSE MemberName(text, i, FieldEnd) + 1
         + FieldEnd(text, MemberName(text, i, FieldEnd) + 1) - i

\* \b[A-Za-z_][A-Za-z0-9_<>\[\]\s]*\s+(w)\s*\(
MethodPattern(text, i) ==
    IF MemberName(text, i, MethodEnd) = 0 THEN 0
    ELSE MemberName(text, i, MethodEnd) + 2 - i

\* the names the matches of a member pattern capture
MemberNames(Pattern(_, _), Ends(_, _), text) ==
    LET at == FindIter(Pattern, text, 1)
    IN  {text[MemberName(text, at[n], Ends)] : n \in DOMAIN at}

\* re.findall(r'#include\s*[<"]([^>"]+)[>"]', source), each cut at its
\* first slash
cpp_includes(source) ==
    {source[i + 3] : i \in
        {i \in DOMAIN source :
            /\ source[i] = "#" /\ TokenAt(source, i + 1) = "include"
            /\ TokenAt(source, i + 2) \in {"<", "\""}
            /\ TokenAt(source, i + 3) \notin {">", "\"", " "}
            /\ TokenAt(source, i + 4) \in {">", "\""}}}

\* _analyze_cpp_file, one match of the type pattern: what it adds to the
\* shared lists and the class entry
CppClass(file, start) ==
    LET source == file.source
        class_name == source[start + 1]
        type_content == BraceContent(source, start, 0)
        Keyword(w) == w \in {<<"if">>, <<"for">>, <<"while">>, <<"return">>}
        fields == {<<w>> : w \in MemberNames(FieldPattern, FieldEnd,
                                             type_content)}
        methods == {<<w>> : w \in MemberNames(MethodPattern, MethodEnd,
                                              type_content)}
        stereotype == IF source[start] = "struct" THEN "struct" ELSE "class"
    IN  [name |-> class_name,
         inheritance |->
             IF inheritance_str(source, start) = <<>> THEN <<>>
             ELSE cpp_bases(class_name,
                            Split(inheritance_str(source, start), ",")),
         entry |->
             [class |-> class_name,
              fields |-> Sorted({f \in fields : ~Keyword(f)}),
              methods |-> Sorted({m \in methods : ~Keyword(m)}),
              stereotype |-> stereotype, abstract |-> FALSE]]

----------------------------------------------------------------------------
(* analyze.py: analyze_repo                                                *)

\* the locals of analyze_repo before the walk
RepoLocals ==
    /\ all_class_names = {}
    /\ result = [python |-> <<>>, java |-> <<>>, cpp |-> <<>>,
                 relations |-> <<>>]
    /\ inheritance_rels = <<>>
    /\ composition_rels = <<>>
    /\ dependency_rels = <<>>
    /\ usage_rels = <<>>

RepoInit ==
    /\ RepoLocals
    /\ file_tasks = <<>>
    /\ task_pc = <<>>
    /\ repo_pc = "idle"
    /\ returned = <<>>

\* analyze_repo up to the submission of the tasks; files is the order in
\* which os.walk lists them
analyze_repo_start(files) ==
    /\ repo_pc = "idle"
    /\ Len(returned) < MaxRuns
    /\ file_tasks' = files
    /\ task_pc' = [i \in DOMAIN files |-> [pc |-> "queued", cls |-> 0]]
    /\ all_class_names' = {}
    /\ result' = [python |-> <<>>, java |-> <<>>, cpp |-> <<>>,
                  relations |-> <<>>]
    /\ inheritance_rels' = <<>>
    /\ composition_rels' = <<>>
    /\ dependency_rels' = <<>>
    /\ usage_rels' = <<>>
    /\ repo_pc' = "workers"
    /\ UNCHANGED returned

Running ==
    {i \in DOMAIN task_pc :
        task_pc[i].pc \in {"register", "members", "java", "cpp"}}

\* a pool thread takes the next task: process_file, and _analyze_python_file
\* up to the class loop
process_file(i) ==
    /\ task_pc[i].pc = "queued"
    /\ \A j \in 1..(i - 1) : task_pc[j].pc # "queued"
    /\ Cardinality(Running) < max_workers
    /\ LET file == file_tasks[i] IN
       task_pc' = [task_pc EXCEPT ![i] =
           IF EndsWith(file, ".py") /\ file.fault = "none"
              /\ file.classes # <<>>
           THEN [pc |-> "register", cls |-> 1]
           ELSE IF EndsWith(file, ".java") /\ file.fault = "none"
                   /\ file.classes # <<>>
           THEN [pc |-> "java", cls |-> 1]
           ELSE IF file.path.ext \in CppExtensions /\ file.fault = "none"
                   /\ FindIter(TypeDeclaration, file.source, 1) # <<>>
           THEN [pc |-> "cpp", cls |-> 1]
           ELSE [pc |-> "done", cls |-> 0]]
    /\ UNCHANGED <<file_tasks, all_class_names, result, inheritance_rels,
                   composition_rels, dependency_rels, usage_rels, repo_pc,
                   returned>>

\* _analyze_python_file: the class name and the bases of one class
class_register(i) ==
    /\ task_pc[i].pc = "register"
    /\ LET node == file_tasks[i].classes[task_pc[i].cls] IN
       /\ all_class_names' = all_class_names \cup {node.name}
       /\ inheritance_rels' = RepoBases(inheritance_rels, node.bases, node.name)
    /\ task_pc' = [task_pc EXCEPT ![i].pc = "members"]
    /\ UNCHANGED <<file_tasks, result, composition_rels, dependency_rels,
                   usage_rels, repo_pc, returned>>

\* _analyze_python_file: the members of one class, its entry and its edges
class_members(i, package_path) ==
    /\ task_pc[i].pc = "members"
    /\ LET file == file_tasks[i]
           node == file.classes[task_pc[i].cls]
           class_name == node.name
           stereotype == RepoStereotype(node)
       IN  \E m \in {RepoMembers([fields |-> {}, methods |-> {},
                                  compositions |-> {},
                                  usage_rels |-> usage_rels],
                                 node.body, class_name, all_class_names)} :
           /\ usage_rels' = m.usage_rels
           /\ result' = [result EXCEPT !.python = Append(@,
                  [class |-> class_name, fields |-> Sorted(m.fields),
                   methods |-> Sorted(m.methods), stereotype |-> stereotype,
                   abstract |-> stereotype = "abstract",
                   package |-> IF package_path # "" THEN package_path
                               ELSE "main"])]
           /\ composition_rels' =
                  RepoEdgesTo(composition_rels, SetToSeq(m.compositions),
                              class_name, "composition", m.compositions)
           /\ dependency_rels' =
                  RepoEdgesTo(dependency_rels, SetToSeq(file.imports),
                              class_name, "dependency", all_class_names)
           /\ task_pc' = [task_pc EXCEPT ![i] =
                  IF task_pc[i].cls < Len(file.classes)
                  THEN [pc |-> "register", cls |-> task_pc[i].cls + 1]
                  ELSE [pc |-> "done", cls |-> 0]]
    /\ UNCHANGED <<file_tasks, all_class_names, inheritance_rels, repo_pc,
                   returned>>

\* the class loop that keeps only the edges to classes registered so far
java_class_known_only(i, package_path) ==
    /\ task_pc[i].pc = "java"
    /\ LET file == file_tasks[i]
           Known(rel) == rel.to \in all_class_names
       IN
       \E r \in {JavaClass(file, file.classes[task_pc[i].cls],
                            package_path)} :
           /\ all_class_names' = all_class_names \cup {r.entry.class}
           /\ inheritance_rels' = inheritance_rels \o r.inheritance
           /\ usage_rels' = usage_rels \o SelectSeq(r.usage, Known)
           /\ composition_rels' =
                  composition_rels \o SelectSeq(r.composition, Known)
           /\ dependency_rels' = dependency_rels \o r.dependency
           /\ result' = [result EXCEPT !.java = Append(@, r.entry)]
           /\ task_pc' = [task_pc EXCEPT ![i] =
                  IF task_pc[i].cls < Len(file.classes)
                  THEN [pc |-> "java", cls |-> task_pc[i].cls + 1]
                  ELSE [pc |-> "done", cls |-> 0]]
    /\ UNCHANGED <<file_tasks, repo_pc, returned>>

\* _analyze_java_file: one class of the class loop
java_class(i, package_path) ==
    /\ task_pc[i].pc = "java"
    /\ LET file == file_tasks[i] IN
       \E r \in {JavaClass(file, file.classes[task_pc[i].cls],
                            package_path)} :
           /\ all_class_names' = all_class_names \cup {r.entry.class}
           /\ inheritance_rels' = inheritance_rels \o r.inheritance
           /\ usage_rels' = usage_rels \o r.usage
           /\ composition_rels' = composition_rels \o r.composition
           /\ dependency_rels' = dependency_rels \o r.dependency
           /\ result' = [result EXCEPT !.java = Append(@, r.entry)]
           /\ task_pc' = [task_pc EXCEPT ![i] =
                  IF task_pc[i].cls < Len(file.classes)
                  THEN [pc |-> "java", cls |-> task_pc[i].cls + 1]
                  ELSE [pc |-> "done", cls |-> 0]]
    /\ UNCHANGED <<file_tasks, repo_pc, returned>>

\* _analyze_cpp_file: one match of the type pattern
cpp_class(i) ==
    /\ task_pc[i].pc = "cpp"
    /\ LET file == file_tasks[i]
           matches == FindIter(TypeDeclaration, file.source, 1)
       IN
       \E r \in {CppClass(file, matches[task_pc[i].cls])} :
           /\ all_class_names' = all_class_names \cup {r.name}
           /\ inheritance_rels' = inheritance_rels \o r.inheritance
           /\ result' = [result EXCEPT !.cpp = Append(@, r.entry)]
           /\ dependency_rels' =
                  RepoEdgesTo(dependency_rels,
                              SetToSeq(cpp_includes(file.source)), r.name,
                              "dependency", all_class_names')
           /\ task_pc' = [task_pc EXCEPT ![i] =
                  IF task_pc[i].cls < Len(matches)
                  THEN [pc |-> "cpp", cls |-> task_pc[i].cls + 1]
                  ELSE [pc |-> "done", cls |-> 0]]
    /\ UNCHANGED <<file_tasks, composition_rels, usage_rels, repo_pc,
                   returned>>

\* the pool is left without waiting for the tasks that have started
executor_not_joined == \A i \in DOMAIN task_pc : task_pc[i].pc # "queued"

\* list(executor.map(...)) and the end of the with block
executor_joined == \A i \in DOMAIN task_pc : task_pc[i].pc = "done"

\* analyze_repo: result['relations'] = _build_relations(...)
analyze_repo_build ==
    /\ repo_pc = "workers"
    /\ executor_joined
    /\ result' = [result EXCEPT !.relations =
           build_relations(inheritance_rels, composition_rels,
                           dependency_rels, usage_rels, all_class_names)]
    /\ repo_pc' = "built"
    /\ UNCHANGED <<file_tasks, task_pc, all_class_names, inheritance_rels,
                   composition_rels, dependency_rels, usage_rels, returned>>

\* analyze_repo: return result
analyze_repo_return ==
    /\ repo_pc = "built"
    /\ returned' = Append(returned, result)
    /\ repo_pc' = "idle"
    /\ UNCHANGED <<file_tasks, task_pc, all_class_names, result,
                   inheritance_rels, composition_rels, dependency_rels,
                   usage_rels>>

----------------------------------------------------------------------------
(* utils/groq_client.py: GroqClient                                        *)
(*                                                                         *)
(* groq is the client object [enabled, cache_enabled, cache,               *)
(* failure_count, disabled_until]; cache is the OrderedDict as the         *)
(* sequence of its items [key, expires_at, data], oldest first.  g_now is  *)
(* time.time() in whole seconds and g_posts counts the session.post calls. *)
(* The outcome of a session.post is what the server and the network make   *)
(* of it: [kind |-> "json", data] for a JSON object, "timeout", "http"     *)
(* with an error status for raise_for_status, "request_error" for another  *)
(* RequestException, "value_error" for a body whose decoding raises        *)
(* ValueError.                                                             *)

\* the configuration __init__ reads from the environment
cache_ttl == 3
cache_max_items == 1
max_retries == 1
backoff_factor == 1
failure_threshold == 2
cooldown_seconds == 2

MaxTime == 5
MaxCalls == 4

\* _hash_payload: the digest of the normalised payload, one per payload
hash_payload(payload) == <<"sha256", payload>>

\* GroqClient.__init__ with GROQ_API_KEY set, for the values of
\* GROQ_ENABLED and GROQ_CACHE_ENABLED
GroqInitWith(enabled, cache_enabled) ==
    /\ groq = [enabled |-> enabled, cache_enabled |-> cache_enabled,
               cache |-> <<>>, failure_count |-> 0, disabled_until |-> 0]
    /\ g_now = 0
    /\ g_posts = 0
    /\ g_calls = 0
    /\ g_result = [status |-> "init"]
    /\ g_last = <<>>

\* the client of a process that has set neither variable
GroqInit == GroqInitWith(TRUE, FALSE)

CacheKeys(cache) == {cache[n].key : n \in DOMAIN cache}

CacheItem(cache, key) == cache[CHOOSE n \in DOMAIN cache : cache[n].key = key]

CacheWithout(cache, key) ==
    LET Other(item) == item.key # key IN SelectSeq(cache, Other)

\* OrderedDict.move_to_end(key)
move_to_end(cache, key) ==
    Append(CacheWithout(cache, key), CacheItem(cache, key))

\* _cache_get: [g, data], data "None" for None; now is time.time()
cache_get(g, key, now) ==
    IF ~g.cache_enabled \/ key \notin CacheKeys(g.cache)
    THEN [g |-> g, data |-> "None"]
    ELSE IF CacheItem(g.cache, key).expires_at < now
    THEN [g |-> [g EXCEPT !.cache = CacheWithout(@, key)], data |-> "None"]
    ELSE [g |-> [g EXCEPT !.cache = move_to_end(@, key)],
          data |-> CacheItem(g.cache, key).data]

\* while len(self._cache) > self.cache_max_items: popitem(last=False)
RECURSIVE PopOldest(_)
PopOldest(cache) ==
    IF Len(cache) > cache_max_items THEN PopOldest(Tail(cache)) ELSE cache

\* _cache_set
cache_set(g, key, data, now) ==
    IF ~g.cache_enabled THEN g
    ELSE [g EXCEPT !.cache =
             PopOldest(Append(CacheWithout(@, key),
                              [key |-> key, expires_at |-> now + cache_ttl,
                               data |-> data]))]

\* bool(response) of requests: Response.ok, no error status
ResponseTruthy(status) == status < 400

\* 2 ** attempt
RECURSIVE Pow2(_)
Pow2(n) == IF n = 0 THEN 1 ELSE 2 * Pow2(n - 1)

\* the retry loop of call from one attempt on; outcomes[attempt + 1] is
\* what session.post meets in that attempt.  The state is [g, now, posts];
\* the value adds status ("ok", or "failed" when the loop is left without a
\* return) and data.
RECURSIVE Attempts(_, _, _, _)
Attempts(st, key, outcomes, attempt) ==
    IF attempt > max_retries
    THEN [g |-> st.g, now |-> st.now, posts |-> st.posts,
          status |-> "failed", data |-> "None"]
    ELSE LET o == outcomes[attempt + 1]
             posted == [st EXCEPT !.posts = @ + 1]
             status_code == IF o.kind = "http" /\ ResponseTruthy(o.status)
                            THEN o.status ELSE 0
             slept == IF attempt < max_retries /\ backoff_factor > 0
                      THEN [posted EXCEPT
                               !.now = @ + backoff_factor * Pow2(attempt)]
                      ELSE posted
         IN  IF o.kind = "json"
             THEN [g |-> cache_set([st.g EXCEPT !.failure_count = 0,
                                                !.disabled_until = 0],
                                   key, o.data, st.now),
                   now |-> st.now, posts |-> posted.posts,
                   status |-> "ok", data |-> o.data]
             ELSE IF \/ o.kind = "value_error"
                     \/ (o.kind = "http" /\ status_code # 0
                         /\ status_code < 500)
             THEN [g |-> st.g, now |-> st.now, posts |-> posted.posts,
                   status |-> "failed", data |-> "None"]
             ELSE Attempts(slept, key, outcomes, attempt + 1)

\* an end of call that counts the failure and never opens the breaker
AfterFailureNeverDisables(g, now) ==
    [g |-> [g EXCEPT !.failure_count = @ + 1], status |-> "GroqClientError"]

\* the end of call behind the loop: the failure count and the breaker
AfterFailure(g, now) ==
    IF failure_threshold > 0 /\ g.failure_count + 1 >= failure_threshold
    THEN [g |-> [g EXCEPT !.failure_count = 0,
                          !.disabled_until = now + cooldown_seconds],
          status |-> "GroqClientDisabledError"]
    ELSE [g |-> [g EXCEPT !.failure_count = @ + 1],
          status |-> "GroqClientError"]

\* GroqClient.call; g_last keeps, per payload, when the last call that
\* fetched a response was made and what it returned
call(payload, outcomes) ==
    /\ g_calls < MaxCalls
    /\ g_now + backoff_factor * (Pow2(max_retries) - 1) <= MaxTime
    /\ g_calls' = g_calls + 1
    /\ IF \/ ~groq.enabled
          \/ (groq.disabled_until # 0 /\ g_now < groq.disabled_until)
       THEN /\ g_result' = [status |-> "GroqClientDisabledError"]
            /\ UNCHANGED <<groq, g_now, g_posts, g_last>>
       ELSE \E c \in {cache_get(groq, hash_payload(payload), g_now)} :
            IF c.data # "None"
            THEN /\ groq' = c.g
                 /\ g_result' = [status |-> "ok", data |-> c.data]
                 /\ UNCHANGED <<g_now, g_posts, g_last>>
            ELSE \E r \in {Attempts([g |-> c.g, now |-> g_now,
                                     posts |-> g_posts],
                                    hash_payload(payload), outcomes, 0)} :
                 /\ g_now' = r.now
                 /\ g_posts' = r.posts
                 /\ IF r.status = "ok"
                    THEN /\ groq' = r.g
                         /\ g_result' = [status |-> "ok", data |-> r.data]
                         /\ g_last' =
                                SelectSeq(g_last,
                                    LAMBDA e : e.payload # payload)
                                \o <<[payload |-> payload, time |-> g_now,
                                      data |-> r.data]>>
                    ELSE \E f \in {AfterFailure(r.g, r.now)} :
                         /\ groq' = f.g
                         /\ g_result' = [status |-> f.status]
                         /\ UNCHANGED g_last

----------------------------------------------------------------------------
(* Inputs of the validation runs *)

MaxValidateRels == 2

ValidateNames == {"", "A", "B"}

ValidateTypes == RelationshipTypeValues \cup {"creates", ""}

ValidateEdges ==
    {Edge(f, t, ty, "heuristic") :
        f \in ValidateNames, t \in ValidateNames, ty \in ValidateTypes}

ClassRec(n) == [class |-> n, fields |-> <<>>, abstract |-> FALSE]

ValidateClassLists ==
    {<<>>, <<ClassRec("A")>>, <<ClassRec("A"), ClassRec("B")>>}

DetectorInit ==
    /\ relationships = <<>>
    /\ all_classes = {}
    /\ d_op = "init"
    /\ d_arg = <<>>
    /\ d_result = <<>>

ValidateSetClasses ==
    /\ \E cl \in ValidateClassLists : set_classes(cl)
    /\ UNCHANGED not_detector

ValidateAdd ==
    /\ Len(relationships) < MaxValidateRels
    /\ \E r \in ValidateEdges : add_relationships(<<r>>)
    /\ UNCHANGED not_detector

ValidateCall == validate_relationships /\ UNCHANGED not_detector

InitValidate ==
    /\ DetectorInit
    /\ FactoryInit
    /\ RepoInit
    /\ GroqInit
    /\ in_arg = <<>>

NextValidate == ValidateSetClasses \/ ValidateAdd \/ ValidateCall

SpecValidate == InitValidate /\ [][NextValidate]_vars

----------------------------------------------------------------------------
(* Inputs of the de-duplication runs *)

MaxDedupRels == 3

DedupEdges ==
    {EdgeM(p[1], p[2], ty, src, m) :
        p \in {<<"A", "B">>, <<"B", "A">>}, ty \in {"extends", "uses"},
        src \in {"heuristic", "inferred"}, m \in {"", "1..*"}}

DedupCall == deduplicate_relationships(in_arg) /\ UNCHANGED not_detector

InitDedup ==
    /\ DetectorInit
    /\ FactoryInit
    /\ RepoInit
    /\ GroqInit
    /\ in_arg \in SeqsUpTo(DedupEdges, MaxDedupRels)

NextDedup == DedupCall

SpecDedup == InitDedup /\ [][NextDedup]_vars

----------------------------------------------------------------------------
(* Inputs of the cycle-detection runs *)

MaxCycleRels == 3

CycleNames == {"A", "B", "C"}

CycleEdges ==
    {Edge(f, t, ty, "heuristic") :
        f \in CycleNames, t \in CycleNames, ty \in {"extends", "uses"}}
    \cup {Edge(f, f, "dependency", "heuristic") : f \in CycleNames}

CycleAdd ==
    /\ Len(relationships) < MaxCycleRels
    /\ \E r \in CycleEdges : add_relationships(<<r>>)
    /\ UNCHANGED not_detector

CycleCall == detect_circular_dependencies /\ UNCHANGED not_detector

InitCycle ==
    /\ DetectorInit
    /\ FactoryInit
    /\ RepoInit
    /\ GroqInit
    /\ in_arg = <<>>

NextCycle == CycleAdd \/ CycleCall

SpecCycle == InitCycle /\ [][NextCycle]_vars

----------------------------------------------------------------------------
(* Inputs of the inference runs *)

MaxInferClasses == 2

MaxInferRels == 1

InferNames == {"A", "B"}

\* "f", "f: A", "f: B<A>", "f: A[]", "f: A::B"
InferFieldStrings ==
    {<<"f">>,
     <<"f", ":", " ", "A">>,
     <<"f", ":", " ", "B", "<", "A", ">">>,
     <<"f", ":", " ", "A", "[", "]">>,
     <<"f", ":", " ", "A", ":", ":", "B">>}

InferClassRecs ==
    {[class |-> n, fields |-> <<f>>, abstract |-> FALSE] :
        n \in InferNames, f \in InferFieldStrings}
    \cup {[class |-> n, fields |-> <<>>, abstract |-> a] :
        n \in InferNames, a \in BOOLEAN}

InferClassLists == SeqsUpTo(InferClassRecs, MaxInferClasses)

\* A -> A extends: a class that extends a class of its own name from
\* another package
InferEdges ==
    {Edge("A", "B", "extends", "heuristic"),
     Edge("B", "A", "extends", "heuristic"),
     Edge("A", "A", "extends", "heuristic"),
     Edge("A", "B", "uses", "heuristic")}

InferSetClasses ==
    /\ \E cl \in {in_arg, <<ClassRec("A")>>, <<ClassRec("A"), ClassRec("B")>>} :
           set_classes(cl)
    /\ UNCHANGED not_detector

InferAdd ==
    /\ Len(relationships) < MaxInferRels
    /\ \E r \in InferEdges : add_relationships(<<r>>)
    /\ UNCHANGED not_detector

InferCall == infer_additional_relationships(in_arg) /\ UNCHANGED not_detector

InitInfer ==
    /\ DetectorInit
    /\ FactoryInit
    /\ RepoInit
    /\ GroqInit
    /\ in_arg \in InferClassLists

NextInfer == InferSetClasses \/ InferAdd \/ InferCall

SpecInfer == InitInfer /\ [][NextInfer]_vars

----------------------------------------------------------------------------
(* Inputs of the factory runs: the files of a small repository *)

Name(id) == [kind |-> "Name", id |-> id]

\* engine.py:  class Engine: pass
EngineFile ==
    [path |-> [root |-> "engine", ext |-> ".py"], fault |-> "none",
     imports |-> {},
     classes |-> <<[name |-> "Engine", bases |-> <<>>, body |-> <<>>]>>]

\* car.py:  import Engine
\*          class Car:
\*              wheels = 4
\*              def __init__(self):
\*                  self.engine: Engine = Engine()
\*                  self.color = "red"
CarFile ==
    [path |-> [root |-> "car", ext |-> ".py"], fault |-> "none",
     imports |-> {"Engine"},
     classes |-> <<
        [name |-> "Car", bases |-> <<>>,
         body |-> <<
            [kind |-> "Assign", ids |-> <<"wheels">>],
            [kind |-> "FunctionDef", name |-> "__init__", decorators |-> {},
             nodes |-> <<
                [kind |-> "AnnAssign", self_attr |-> "engine",
                 annotation |-> Name("Engine")],
                [kind |-> "Assign", self_attrs |-> <<"color">>, callee |-> ""],
                [kind |-> "Name", id |-> "Engine"],
                [kind |-> "Call", func |-> "Engine"],
                [kind |-> "Name", id |-> "self"],
                [kind |-> "Name", id |-> "self"],
                [kind |-> "Name", id |-> "Engine"]>>]>>]>>]

\* turbo.PY:  class Turbo(Engine):
\*                def boost(self):
\*                    self.spare = Engine()
TurboFile ==
    [path |-> [root |-> "turbo", ext |-> ".PY"], fault |-> "none",
     imports |-> {},
     classes |-> <<
        [name |-> "Turbo", bases |-> <<Name("Engine")>>,
         body |-> <<
            [kind |-> "FunctionDef", name |-> "boost", decorators |-> {},
             nodes |-> <<
                [kind |-> "Assign", self_attrs |-> <<"spare">>,
                 callee |-> "Engine"],
                [kind |-> "Call", func |-> "Engine"],
                [kind |-> "Name", id |-> "self"],
                [kind |-> "Name", id |-> "Engine"]>>]>>]>>]

\* bad.py: the text of engine.py with a line ast.parse rejects
BadFile ==
    [EngineFile EXCEPT !.path.root = "bad", !.fault = "syntax",
                       !.classes[1].name = "Broken"]

\* locked.py: a class definition in a file that open() cannot read
LockedFile ==
    [EngineFile EXCEPT !.path.root = "locked", !.fault = "error",
                       !.classes[1].name = "Locked"]

\* notes.txt
NotesFile ==
    [path |-> [root |-> "notes", ext |-> ".txt"], fault |-> "none",
     imports |-> {}, classes |-> <<>>]

FactoryFiles ==
    {EngineFile, CarFile, TurboFile, BadFile, LockedFile, NotesFile}

\* the class records a caller has collected from the analyze_file calls
RECURSIVE CollectedFrom(_)
CollectedFrom(log) ==
    IF log = <<>> THEN <<>>
    ELSE Head(log).classes \o CollectedFrom(Tail(log))

Collected ==
    LET Current(e) == e.gen = f_gen IN CollectedFrom(SelectSeq(f_log, Current))

FactoryAnalyze ==
    /\ \E file \in FactoryFiles : analyze_file(file, "")
    /\ UNCHANGED not_factory

FactoryDetect ==
    /\ \E all \in {Collected, <<>>} : detect_all_relationships(all)
    /\ UNCHANGED not_factory

FactoryReset == reset_all_analyzers /\ UNCHANGED not_factory

InitFactory ==
    /\ DetectorInit
    /\ FactoryInit
    /\ RepoInit
    /\ GroqInit
    /\ in_arg = <<>>

NextFactory == FactoryAnalyze \/ FactoryDetect \/ FactoryReset

SpecFactory == InitFactory /\ [][NextFactory]_vars

----------------------------------------------------------------------------
(* Inputs of the runs that use both de-duplication points *)

MaxBothRels == 2

BothEdges ==
    {EdgeM("A", "B", "extends", "heuristic", ""),
     EdgeM("A", "B", "extends", "inferred", ""),
     EdgeM("A", "B", "extends", "heuristic", "1..*"),
     EdgeM("B", "A", "uses", "heuristic", "")}

BothFiles == {EngineFile, CarFile, TurboFile}

BothAnalyze ==
    /\ \E file \in BothFiles : analyze_file(file, "")
    /\ UNCHANGED not_factory

InitBoth ==
    /\ DetectorInit
    /\ FactoryInit
    /\ RepoInit
    /\ GroqInit
    /\ in_arg \in SeqsUpTo(BothEdges, MaxBothRels)

NextBoth == DedupCall \/ BothAnalyze \/ FactoryDetect

SpecBoth == InitBoth /\ [][NextBoth]_vars

----------------------------------------------------------------------------
(* Inputs of the repository runs: one file set, analysed MaxRuns times *)

RepoFiles == {EngineFile, CarFile, BadFile}

Orders(S) == {s \in [1..Cardinality(S) -> S] : Range(s) = S}

RepoStart ==
    /\ \E files \in Orders(RepoFiles) : analyze_repo_start(files)
    /\ UNCHANGED not_repo

RepoTake ==
    /\ \E i \in DOMAIN task_pc : process_file(i)
    /\ UNCHANGED not_repo

RepoRegister ==
    /\ \E i \in DOMAIN task_pc : class_register(i)
    /\ UNCHANGED not_repo

RepoMembersScan ==
    /\ \E i \in DOMAIN task_pc : class_members(i, "")
    /\ UNCHANGED not_repo

RepoBuild == analyze_repo_build /\ UNCHANGED not_repo

RepoReturn == analyze_repo_return /\ UNCHANGED not_repo

InitRepo ==
    /\ DetectorInit
    /\ FactoryInit
    /\ RepoInit
    /\ GroqInit
    /\ in_arg = <<>>

NextRepo ==
    \/ RepoStart
    \/ RepoTake
    \/ RepoRegister
    \/ RepoMembersScan
    \/ RepoBuild
    \/ RepoReturn

SpecRepo == InitRepo /\ [][NextRepo]_vars

----------------------------------------------------------------------------
(* Inputs of the Java repository runs *)

\* Engine.java:  public class Engine {
\*                   public void start() {}
\*                   public static void tune() {} }
EngineJava ==
    [path |-> [root |-> "Engine", ext |-> ".java"], fault |-> "none",
     package |-> "", imports |-> {}, interfaces |-> <<>>,
     classes |-> <<
        [name |-> "Engine", extends |-> "", implements |-> <<>>,
         modifiers |-> {"public"}, fields |-> <<>>,
         methods |-> <<[name |-> "start", parameters |-> <<>>],
                       [name |-> "tune", parameters |-> <<>>]>>]>>,
     source |->
         <<"public", "class", "Engine", "{", "public", "void", "start", "(",
           ")", "{", "}", "public", "static", "void", "tune", "(", ")", "{",
           "}", "}">>]

\* Car.java:  public class Car {
\*                private Engine engine;
\*                public Car() { this.engine = new Engine(); }
\*                public void drive() { Engine e = new Engine(); Engine.tune(); } }
CarJava ==
    [path |-> [root |-> "Car", ext |-> ".java"], fault |-> "none",
     package |-> "", imports |-> {}, interfaces |-> <<>>,
     classes |-> <<
        [name |-> "Car", extends |-> "", implements |-> <<>>,
         modifiers |-> {"public"},
         fields |-> <<[type |-> "Engine", names |-> <<"engine">>]>>,
         methods |-> <<[name |-> "drive", parameters |-> <<>>]>>]>>,
     source |->
         <<"public", "class", "Car", "{", "private", "Engine", "engine", ";",
           "public", "Car", "(", ")", "{", "this", ".", "engine", "=", "new",
           "Engine", "(", ")", ";", "}", "public", "void", "drive", "(", ")",
           "{", "Engine", "e", "=", "new", "Engine", "(", ")", ";", "Engine",
           ".", "tune", "(", ")", ";", "}", "}">>]

\* Node.java:  public class Node { private Node next; }
NodeJava ==
    [path |-> [root |-> "Node", ext |-> ".java"], fault |-> "none",
     package |-> "", imports |-> {}, interfaces |-> <<>>,
     classes |-> <<
        [name |-> "Node", extends |-> "", implements |-> <<>>,
         modifiers |-> {"public"},
         fields |-> <<[type |-> "Node", names |-> <<"next">>]>>,
         methods |-> <<>>]>>,
     source |->
         <<"public", "class", "Node", "{", "private", "Node", "next", ";",
           "}">>]

JavaRepoFiles == {EngineJava, CarJava, NodeJava}

JavaRepoStart ==
    /\ \E files \in Orders(JavaRepoFiles) : analyze_repo_start(files)
    /\ UNCHANGED not_repo

RepoJavaClass ==
    /\ \E i \in DOMAIN task_pc : java_class(i, "")
    /\ UNCHANGED not_repo

NextJavaRepo ==
    \/ JavaRepoStart
    \/ RepoTake
    \/ RepoJavaClass
    \/ RepoBuild
    \/ RepoReturn

SpecJavaRepo == InitRepo /\ [][NextJavaRepo]_vars

----------------------------------------------------------------------------
(* Inputs of the factory runs over Java files *)

\* Garage.java:  public class Garage { public void park(Car c) { } }
GarageJava ==
    [path |-> [root |-> "Garage", ext |-> ".java"], fault |-> "none",
     package |-> "", imports |-> {}, interfaces |-> <<>>,
     classes |-> <<
        [name |-> "Garage", extends |-> "", implements |-> <<>>,
         modifiers |-> {"public"}, fields |-> <<>>,
         methods |-> <<[name |-> "park", parameters |-> <<"Car">>]>>]>>,
     source |->
         <<"public", "class", "Garage", "{", "public", "void", "park", "(",
           "Car", "c", ")", "{", "}", "}">>]

\* Drivable.java:  public interface Drivable { void drive(); }
DrivableJava ==
    [path |-> [root |-> "Drivable", ext |-> ".java"], fault |-> "none",
     package |-> "", imports |-> {}, classes |-> <<>>,
     interfaces |-> <<
        [name |-> "Drivable", extends |-> <<>>,
         methods |-> <<[name |-> "drive", parameters |-> <<>>]>>]>>,
     source |->
         <<"public", "interface", "Drivable", "{", "void", "drive", "(", ")",
           ";", "}">>]

JavaFactoryFiles == {EngineJava, CarJava, GarageJava, DrivableJava}

JavaFactoryAnalyze ==
    /\ \E file \in JavaFactoryFiles : analyze_file(file, "")
    /\ UNCHANGED not_factory

NextJavaFactory == JavaFactoryAnalyze \/ FactoryDetect

SpecJavaFactory == InitFactory /\ [][NextJavaFactory]_vars

----------------------------------------------------------------------------
(* Inputs of the runs over Python files, through the factory and through   *)
(* analyze_repo                                                            *)

\* mod.py:  class Engine: pass
\*          class Car:
\*              wheels = 4
\*              def __init__(self):
\*                  self.engine: Engine = Engine()
\*                  self.color = "red"
ModFile ==
    [path |-> [root |-> "mod", ext |-> ".py"], fault |-> "none",
     imports |-> {},
     classes |-> <<EngineFile.classes[1], CarFile.classes[1]>>]

\* boost.py: the text of turbo.PY
BoostFile == [TurboFile EXCEPT !.path = [root |-> "boost", ext |-> ".py"]]

PythonFiles == {ModFile, BoostFile}

PythonAnalyze ==
    /\ \E file \in PythonFiles : analyze_file(file, "")
    /\ UNCHANGED not_factory

PythonRepoStart ==
    /\ \E files \in Orders(PythonFiles) : analyze_repo_start(files)
    /\ UNCHANGED not_repo

NextPython ==
    \/ PythonAnalyze
    \/ FactoryDetect
    \/ PythonRepoStart
    \/ RepoTake
    \/ RepoRegister
    \/ RepoMembersScan
    \/ RepoBuild
    \/ RepoReturn

SpecPython == InitRepo /\ [][NextPython]_vars

----------------------------------------------------------------------------
(* Inputs of the runs over the two Java files of the relations test,       *)
(* through the factory and through analyze_repo                            *)

JavaPair == {EngineJava, CarJava}

JavaPairAnalyze ==
    /\ \E file \in JavaPair : analyze_file(file, "")
    /\ UNCHANGED not_factory

JavaPairRepoStart ==
    /\ \E files \in Orders(JavaPair) : analyze_repo_start(files)
    /\ UNCHANGED not_repo

NextJava ==
    \/ JavaPairAnalyze
    \/ FactoryDetect
    \/ JavaPairRepoStart
    \/ RepoTake
    \/ RepoJavaClass
    \/ RepoBuild
    \/ RepoReturn

SpecJava == InitRepo /\ [][NextJava]_vars

----------------------------------------------------------------------------
(* Inputs of the C++ repository runs *)

\* engine.hpp:  class Engine { public: static void Tune(); };
EngineHpp ==
    [path |-> [root |-> "engine", ext |-> ".hpp"], fault |-> "none",
     source |->
         <<"class", "Engine", "{", "public", ":", "static", "void", "Tune",
           "(", ")", ";", "}", ";">>]

\* car.hpp:  class Car {
\*             Engine engine;
\*           public:
\*             void drive() { Engine::Tune(); Engine* e = new Engine(); }
\*           };
CarHpp ==
    [path |-> [root |-> "car", ext |-> ".hpp"], fault |-> "none",
     source |->
         <<"class", "Car", "{", "Engine", "engine", ";", "public", ":",
           "void", "drive", "(", ")", "{", "Engine", ":", ":", "Tune", "(",
           ")", ";", "Engine", "*", "e", "=", "new", "Engine", "(", ")", ";",
           "}", "}", ";">>]

\* turbo.cpp:  #include <vector>
\*             struct Turbo : public Engine { int boost[2]; };
TurboCpp ==
    [path |-> [root |-> "turbo", ext |-> ".cpp"], fault |-> "none",
     source |->
         <<"#", "include", "<", "vector", ">", "struct", "Turbo", ":",
           "public", "Engine", "{", "int", "boost", "[", "2", "]", ";", "}",
           ";">>]

CppRepoFiles == {EngineHpp, CarHpp, TurboCpp}

CppRepoStart ==
    /\ \E files \in Orders(CppRepoFiles) : analyze_repo_start(files)
    /\ UNCHANGED not_repo

RepoCppClass ==
    /\ \E i \in DOMAIN task_pc : cpp_class(i)
    /\ UNCHANGED not_repo

NextCppRepo ==
    \/ CppRepoStart
    \/ RepoTake
    \/ RepoCppClass
    \/ RepoBuild
    \/ RepoReturn

SpecCppRepo == InitRepo /\ [][NextCppRepo]_vars

----------------------------------------------------------------------------
(* Inputs of the runs of the read-only detector operations *)

MaxStrengthRels == 3

StrengthTypes ==
    {"extends", "implements", "composition", "association", "uses", "creates",
     "EXTENDS"}

StrengthEdges == {Edge("A", "B", ty, "heuristic") : ty \in StrengthTypes}

StrengthCall ==
    /\ \E min_strength \in {"strong", "medium", "weak", "none"} :
           filter_relationships_by_strength(in_arg, min_strength)
    /\ UNCHANGED not_detector

CategorizeCall == categorize_relationships(in_arg) /\ UNCHANGED not_detector

StatisticsAdd ==
    /\ relationships = <<>>
    /\ add_relationships(in_arg)
    /\ UNCHANGED not_detector

StatisticsCall == get_relationship_statistics /\ UNCHANGED not_detector

InitStrength ==
    /\ DetectorInit
    /\ FactoryInit
    /\ RepoInit
    /\ GroqInit
    /\ in_arg \in SeqsUpTo(StrengthEdges, MaxStrengthRels)

NextStrength ==
    StrengthCall \/ CategorizeCall \/ StatisticsAdd \/ StatisticsCall

SpecStrength == InitStrength /\ [][NextStrength]_vars

----------------------------------------------------------------------------
(* Inputs of the GroqClient runs *)

Payloads == {"P", "Q"}

Outcomes ==
    {[kind |-> "json", data |-> "r1"], [kind |-> "json", data |-> "r2"],
     [kind |-> "timeout"], [kind |-> "http", status |-> 404],
     [kind |-> "http", status |-> 503], [kind |-> "request_error"],
     [kind |-> "value_error"]}

GroqCall ==
    /\ \E payload \in Payloads :
           \E outcomes \in [1..(max_retries + 1) -> Outcomes] :
               call(payload, outcomes)
    /\ UNCHANGED not_groq

\* time passes between two calls
GroqTick ==
    /\ g_now < MaxTime
    /\ g_now' = g_now + 1
    /\ UNCHANGED <<groq, g_posts, g_calls, g_result, g_last>>
    /\ UNCHANGED not_groq

InitGroq ==
    /\ DetectorInit
    /\ FactoryInit
    /\ RepoInit
    /\ \E enabled \in BOOLEAN, cache_enabled \in BOOLEAN :
           GroqInitWith(enabled, cache_enabled)
    /\ in_arg = <<>>

NextGroq == GroqCall \/ GroqTick

SpecGroq == InitGroq /\ [][NextGroq]_vars

----------------------------------------------------------------------------
(* Inputs of the runs of every detector operation on one detector *)

MaxFrameRels == 3

FrameEdges ==
    {Edge("A", "B", "extends", "heuristic"),
     Edge("B", "A", "extends", "heuristic"),
     Edge("A", "C", "uses", "heuristic")}

FrameClassLists ==
    {<<ClassRec("A")>>,
     <<[class |-> "A", fields |-> <<>>, abstract |-> TRUE], ClassRec("B")>>}

FrameAdd ==
    /\ Len(relationships) < MaxFrameRels
    /\ \E r \in FrameEdges : add_relationships(<<r>>)
    /\ UNCHANGED not_detector

FrameSetClasses ==
    /\ \E classes \in FrameClassLists : set_classes(classes)
    /\ UNCHANGED not_detector

FrameValidate == validate_relationships /\ UNCHANGED not_detector

\* the callers pass the stored list itself or the list validation returned
FrameDeduplicate ==
    /\ \E rels \in {relationships,
                    ValidateRelationships(relationships, all_classes)} :
           deduplicate_relationships(rels)
    /\ UNCHANGED not_detector

FrameInfer ==
    /\ \E classes \in FrameClassLists :
           infer_additional_relationships(classes)
    /\ UNCHANGED not_detector

FrameCategorize ==
    categorize_relationships(relationships) /\ UNCHANGED not_detector

FrameFilter ==
    /\ \E min_strength \in {"strong", "weak", "none"} :
           filter_relationships_by_strength(relationships, min_strength)
    /\ UNCHANGED not_detector

FrameGetClass ==
    /\ \E class_name \in {"A", "C"} : get_class_relationships(class_name)
    /\ UNCHANGED not_detector

FrameCycles == detect_circular_dependencies /\ UNCHANGED not_detector

FrameStatistics == get_relationship_statistics /\ UNCHANGED not_detector

InitFrame ==
    /\ DetectorInit
    /\ FactoryInit
    /\ RepoInit
    /\ GroqInit
    /\ in_arg = <<>>

NextFrame ==
    \/ FrameAdd
    \/ FrameSetClasses
    \/ FrameValidate
    \/ FrameDeduplicate
    \/ FrameInfer
    \/ FrameCategorize
    \/ FrameFilter
    \/ FrameGetClass
    \/ FrameCycles
    \/ FrameStatistics

SpecFrame == InitFrame /\ [][NextFrame]_vars

----------------------------------------------------------------------------
(* Inputs of the factory runs over Python files with a local instance *)

\* workshop.py:  class Workshop:
\*                   def build(self):
\*                       e = Engine()
\*                       return e
WorkshopFile ==
    [path |-> [root |-> "workshop", ext |-> ".py"], fault |-> "none",
     imports |-> {},
     classes |-> <<
        [name |-> "Workshop", bases |-> <<>>,
         body |-> <<
            [kind |-> "FunctionDef", name |-> "build", decorators |-> {},
             nodes |-> <<
                [kind |-> "Assign", self_attrs |-> <<>>, callee |-> "Engine"],
                [kind |-> "Name", id |-> "e"],
                [kind |-> "Call", func |-> "Engine"],
                [kind |-> "Name", id |-> "e"],
                [kind |-> "Name", id |-> "Engine"]>>]>>]>>]

LocalFiles == {EngineFile, WorkshopFile, BoostFile, CarFile}

LocalAnalyze ==
    /\ \E file \in LocalFiles : analyze_file(file, "")
    /\ UNCHANGED not_factory

NextLocal == LocalAnalyze \/ FactoryDetect

SpecLocal == InitFactory /\ [][NextLocal]_vars

----------------------------------------------------------------------------
(* Inputs of the factory runs over C# files *)

\* Shape.cs:  namespace Geo { public interface IShape { double Area(); } }
ShapeCs ==
    [path |-> [root |-> "Shape", ext |-> ".cs"], fault |-> "none",
     source |->
        <<"namespace", "Geo", "{", "public", "interface", "IShape", "{",
          "double", "Area", "(", ")", ";", "}", "}">>]

\* Box.cs:  using Geo;
\*          public class Box : Item, IShape {
\*              private Lid lid;
\*              public void Open() { this.top = new Lid(); }
\*          }
BoxCs ==
    [path |-> [root |-> "Box", ext |-> ".cs"], fault |-> "none",
     source |->
        <<"using", "Geo", ";", "public", "class", "Box", ":", "Item", ",",
          "IShape", "{", "private", "Lid", "lid", ";", "public", "void",
          "Open", "(", ")", "{", "this", ".", "top", "=", "new", "Lid", "(",
          ")", ";", "}", "}">>]

\* Lid.cs:  public abstract class Lid { }
LidCs ==
    [path |-> [root |-> "Lid", ext |-> ".cs"], fault |-> "none",
     source |-> <<"public", "abstract", "class", "Lid", "{", "}">>]

\* Node.cs:  public class Node : Item, I { }
NodeCs ==
    [path |-> [root |-> "Node", ext |-> ".cs"], fault |-> "none",
     source |->
        <<"public", "class", "Node", ":", "Item", ",", "I", "{", "}">>]

\* Locked.cs: the text of Lid.cs in a file that open() cannot read
LockedCs == [LidCs EXCEPT !.path.root = "Locked", !.fault = "error"]

CsFiles == {ShapeCs, BoxCs, LidCs, NodeCs, LockedCs}

CsAnalyze ==
    /\ \E file \in CsFiles : analyze_file(file, "")
    /\ UNCHANGED not_factory

NextCs == CsAnalyze \/ FactoryDetect

SpecCs == InitFactory /\ [][NextCs]_vars

----------------------------------------------------------------------------
(* Inputs of the brace-matching runs: a text of braces and other tokens   *)
(* and a start position in it.  Position p of the model is offset p - 1   *)
(* of the code.                                                            *)

MaxBraceLen == 5

BraceTokens == {"{", "}", "x"}

\* the text JavaAnalyzer searches: the declaration of class A put in at
\* the start position, so that the class pattern's match ends there
JavaText == SubSeq(in_arg.source, 1, in_arg.start_pos - 1)
                \o <<"class", "A">>
                \o SubSeq(in_arg.source, in_arg.start_pos, Len(in_arg.source))

CsExtract ==
    /\ f_op' = "cs_extract_class_content"
    /\ f_result' =
         [content |-> cs_extract_class_content(in_arg.source, in_arg.start_pos),
          passes |->
             LET brace_start == Find(in_arg.source, "{", in_arg.start_pos)
             IN  IF brace_start = 0 THEN 0
                 ELSE BraceLoop(in_arg.source, brace_start + 1, 1).pos
                          - (brace_start + 1)]
    /\ UNCHANGED <<analyzers, next_id, f_gen, f_concat, f_log>>
    /\ UNCHANGED not_factory

TsExtract ==
    /\ f_op' = "ts_extract_class_content"
    /\ f_result' =
         [content |-> ts_extract_class_content(in_arg.source, in_arg.start_pos),
          passes |->
             LET brace_start == Find(in_arg.source, "{", in_arg.start_pos)
             IN  IF brace_start = 0 THEN 0
                 ELSE BraceLoop(in_arg.source, brace_start + 1, 1).pos
                          - (brace_start + 1)]
    /\ UNCHANGED <<analyzers, next_id, f_gen, f_concat, f_log>>
    /\ UNCHANGED not_factory

\* the loop is left with brace_count = 0 or with pos = len(source)
JavaExtract ==
    /\ f_op' = "extract_class_content"
    /\ f_result' =
         [content |-> extract_class_content(JavaText, "A"),
          passes |->
             LET brace_start == Find(JavaText, "{", in_arg.start_pos + 2)
                 pos == ClassBodyEnd(JavaText, brace_start + 1, 1)
             IN  IF brace_start = 0 THEN 0
                 ELSE IF pos = 0 THEN Len(JavaText) - brace_start
                 ELSE pos - (brace_start + 1)]
    /\ UNCHANGED <<analyzers, next_id, f_gen, f_concat, f_log>>
    /\ UNCHANGED not_factory

InitBrace ==
    /\ DetectorInit
    /\ FactoryInit
    /\ RepoInit
    /\ GroqInit
    /\ \E source \in SeqsUpTo(BraceTokens, MaxBraceLen) :
          \E start_pos \in 1..(Len(source) + 1) :
             in_arg = [source |-> source, start_pos |-> start_pos]

NextBrace == CsExtract \/ TsExtract \/ JavaExtract

SpecBrace == InitBrace /\ [][NextBrace]_vars

----------------------------------------------------------------------------
(* Inputs of the runs of the three passes in order.  The caller holds the  *)
(* class records, the list it builds from the return values, and its own   *)
(* position: setup, validated, deduplicated, done.                         *)

MaxPassRels == 2

PassEdges ==
    {Edge("B", "A", "composition", "heuristic"),
     Edge("A", "B", "extends", "heuristic"),
     Edge("B", "A", "extends", "heuristic"),
     Edge("A", "B", "uses", "heuristic")}

PassSetClasses ==
    /\ in_arg.pc = "setup"
    /\ set_classes(in_arg.classes)
    /\ UNCHANGED not_detector

PassAdd ==
    /\ in_arg.pc = "setup"
    /\ Len(relationships) < MaxPassRels
    /\ \E r \in PassEdges : add_relationships(<<r>>)
    /\ UNCHANGED not_detector

PassValidate ==
    /\ in_arg.pc = "setup"
    /\ validate_relationships
    /\ in_arg' = [in_arg EXCEPT !.pc = "validated", !.final = d_result']
    /\ UNCHANGED <<fvars, rvars, gvars>>

PassDeduplicate ==
    /\ in_arg.pc = "validated"
    /\ deduplicate_relationships(in_arg.final)
    /\ in_arg' = [in_arg EXCEPT !.pc = "deduplicated", !.final = d_result']
    /\ UNCHANGED <<fvars, rvars, gvars>>

PassInfer ==
    /\ in_arg.pc = "deduplicated"
    /\ infer_additional_relationships(in_arg.classes)
    /\ in_arg' = [in_arg EXCEPT !.pc = "done",
                                !.final = in_arg.final \o d_result']
    /\ UNCHANGED <<fvars, rvars, gvars>>

InitPasses ==
    /\ DetectorInit
    /\ FactoryInit
    /\ RepoInit
    /\ GroqInit
    /\ \E classes \in InferClassLists :
          in_arg = [classes |-> classes, final |-> <<>>, pc |-> "setup"]

NextPasses ==
    \/ PassSetClasses
    \/ PassAdd
    \/ PassValidate
    \/ PassDeduplicate
    \/ PassInfer

SpecPasses == InitPasses /\ [][NextPasses]_vars

----------------------------------------------------------------------------
(* Properties *)

SevenKinds ==
    {"extends", "implements", "composition", "aggregation", "uses",
     "dependency", "association"}

C1_Keeps(rel) ==
    /\ rel.from # "" /\ rel.to # "" /\ rel.type # ""
    /\ rel.type \in SevenKinds
    /\ (rel.from # rel.to \/ rel.type = "dependency")
    /\ (rel.type = "dependency"
        \/ (rel.from \in all_classes /\ rel.to \in all_classes))

\* C1: validate_relationships returns, in their original order, exactly the
\* stored candidate edges with non-empty from, to and type, a type among the
\* seven relationship kinds, from # to unless the type is dependency, and
\* (unless the type is dependency) both endpoints in the class-name set.
C1_ValidateExact ==
    d_op = "validate_relationships" =>
        d_result = SelectSeq(relationships, C1_Keeps)

\* a validation of two or more stored edges that kept a dependency self-loop
\* and dropped another edge
C1_Witness ==
    /\ d_op = "validate_relationships"
    /\ Len(relationships) >= 2
    /\ Len(d_result) >= 1
    /\ Len(d_result) < Len(relationships)
    /\ \E i \in DOMAIN d_result :
          d_result[i].type = "dependency" /\ d_result[i].from = d_result[i].to

\* the (from, to) pairs of the stored edges of the four graph types
C5_GraphEdges ==
    {<<relationships[i].from, relationships[i].to>> :
        i \in {j \in DOMAIN relationships :
                 relationships[j].type \in
                    {"extends", "implements", "composition", "dependency"}}}

C5_Triangle == {<<"A", "B">>, <<"B", "C">>, <<"C", "A">>}

\* the pairs joined by a path of at most n + 1 edges of E
RECURSIVE C5_Closure(_, _, _)
C5_Closure(E, R, n) ==
    IF n = 0 THEN R
    ELSE C5_Closure(E,
             R \cup {<<pq[1][1], pq[2][2]>> :
                        pq \in {x \in R \X E : x[1][2] = x[2][1]}},
             n - 1)

C5_Reach(E) == C5_Closure(E, E, Cardinality(E))

C5_HasCycle == \E p \in C5_Reach(C5_GraphEdges) : p[1] = p[2]

\* C5: if the graph of the stored extends, implements, composition and
\* dependency edges has a cycle, detect_circular_dependencies returns at
\* least one cycle; for the edges A->B, B->C, C->A it reports a cycle
\* containing A, B and C.
C5_CycleFound ==
    d_op = "detect_circular_dependencies" =>
        /\ (C5_HasCycle => Len(d_result) >= 1)
        /\ (C5_GraphEdges = C5_Triangle =>
               \E i \in DOMAIN d_result :
                   {"A", "B", "C"} \subseteq Range(d_result[i]))

\* cycle detection has run on the triangle A->B, B->C, C->A
C5_Witness ==
    /\ d_op = "detect_circular_dependencies"
    /\ C5_GraphEdges = C5_Triangle
    /\ Len(d_result) >= 1

\* C7: de-duplicating the output of deduplicate_relationships changes
\* nothing: deduplicate(deduplicate(R)) = deduplicate(R).
C7_DedupIdempotent ==
    d_op = "deduplicate_relationships" =>
        DeduplicateRelationships(d_result) = d_result

\* a de-duplication that removed a duplicate
C7_Witness ==
    /\ d_op = "deduplicate_relationships"
    /\ Len(d_result) >= 2
    /\ Len(d_result) < Len(d_arg)


\* the declared type of a field string as the claim reads it: the text after
\* the first ':', generic and array markers stripped
C10_DeclaredType(field) ==
    LET after == Strip(SubSeq(field, Index(field, ":") + 1, Len(field)))
        k == CHOOSE n \in 0..Len(after) :
                 /\ \A i \in 1..n : after[i] \notin {"<", "["}
                 /\ (n < Len(after) => after[n + 1] \in {"<", "["})
    IN  Join(Strip(SubSeq(after, 1, k)))

\* the composition edges the claim names for one class record
C10_EdgesOf(cls) ==
    {Edge(cls.class, C10_DeclaredType(cls.fields[j]), "composition",
          "inferred") :
        j \in {k \in DOMAIN cls.fields :
                 /\ Contains(cls.fields[k], ":")
                 /\ C10_DeclaredType(cls.fields[k]) \in all_classes
                 /\ C10_DeclaredType(cls.fields[k]) # cls.class}}

C10_Expected == UNION {C10_EdgesOf(d_arg[i]) : i \in DOMAIN d_arg}

\* C10: infer_additional_relationships emits a composition edge C->T with
\* source 'inferred' for every class C and every field string of C whose
\* declared type T names a known class other than C, and no other
\* composition edge.
C10_CompositionFromFields ==
    d_op = "infer_additional_relationships" =>
        {e \in Range(d_result) : e.type = "composition"} = C10_Expected

Analysable(file) ==
    /\ Lower(file.path.ext) \in DOMAIN ANALYZER_MAP
    /\ file.fault = "none"

C3_NamesOf(classes) == [i \in DOMAIN classes |-> classes[i].class]

C3_Declared(file) == [i \in DOMAIN file.classes |-> file.classes[i].name]

\* C3: a file that cannot be analysed (no analyzer for its extension, a
\* syntax error, any other exception while it is read and parsed) yields an
\* empty list of class records, and every file that can be analysed yields
\* one record per class it declares, whatever files were analysed before it
C3_FaultIsolated ==
    \A i \in DOMAIN f_log :
        /\ ~Analysable(f_log[i].file) => f_log[i].classes = <<>>
        /\ Analysable(f_log[i].file) =>
              C3_NamesOf(f_log[i].classes) = C3_Declared(f_log[i].file)

C3_Witness ==
    /\ Len(f_log) = 3
    /\ f_log[1].file = BadFile
    /\ f_log[2].file = NotesFile
    /\ f_log[3].file = CarFile
    /\ f_op = "analyze_file"
    /\ C3_NamesOf(f_result) = <<"Car">>

C8_CurrentCalls == {i \in DOMAIN f_log : f_log[i].gen = f_gen}

\* C8: between two resets every file of one language, whatever the case of
\* its extension, is analysed by the one analyzer object the factory holds
\* for that language, and the class names of every file analysed so far are
\* in that object's class_names
C8_SharedAnalyzer ==
    \A i \in C8_CurrentCalls :
        LET e == f_log[i]
            ext == Lower(e.file.path.ext)
        IN  ext \in DOMAIN ANALYZER_MAP =>
               \E l \in DOMAIN analyzers :
                  /\ analyzers[l].cls = ANALYZER_MAP[ext]
                  /\ analyzers[l].id = e.id
                  /\ \A k \in DOMAIN e.classes :
                        is_class_known(analyzers[l], e.classes[k].class)

C8_Witness ==
    /\ Len(f_log) = 3
    /\ f_log[1].file = EngineFile
    /\ f_log[2].file = TurboFile
    /\ f_log[3].file = CarFile
    /\ f_log[1].gen = f_gen
    /\ f_log[1].id = f_log[2].id
    /\ f_log[2].id = f_log[3].id
    /\ Edge("Car", "Engine", "composition", "heuristic")
           \in Range(analyzers.python.compositions)

C9_Edges(a) ==
    Range(a.relationships) \cup Range(a.compositions) \cup Range(a.usages)

C9_CurrentNames ==
    UNION {{f_log[i].classes[k].class : k \in DOMAIN f_log[i].classes} :
              i \in C8_CurrentCalls}

\* C9: right after reset_all_analyzers every analyzer has an empty class-name
\* registry and empty edge lists, and at any time the registries and edge
\* lists hold only what the analyses since the last reset recorded
C9_ResetEmpties ==
    /\ f_op = "reset_all_analyzers" =>
          \A l \in DOMAIN analyzers :
              /\ analyzers[l].class_names = {}
              /\ C9_Edges(analyzers[l]) = {}
              /\ analyzers[l].imports = {}
    /\ \A l \in DOMAIN analyzers :
          /\ analyzers[l].class_names \subseteq C9_CurrentNames
          /\ \A e \in C9_Edges(analyzers[l]) :
                {e.from, e.to} \cap C9_CurrentNames # {}

C9_Witness ==
    /\ f_op = "reset_all_analyzers"
    /\ Len(f_log) = 3
    /\ f_log[1].file = EngineFile
    /\ f_log[2].file = TurboFile
    /\ f_log[3].file = CarFile
    /\ f_log[3].gen < f_gen

C6_SameKey(r1, r2) ==
    r1.from = r2.from /\ r1.to = r2.to /\ r1.type = r2.type

C6_First(rels) ==
    {i \in DOMAIN rels : \A j \in 1..(i - 1) : ~C6_SameKey(rels[j], rels[i])}

C6_Nth(S, k) == CHOOSE i \in S : Cardinality({j \in S : j <= i}) = k

C6_FirstOccurrences(rels, out) ==
    /\ Len(out) = Cardinality(C6_First(rels))
    /\ \A k \in DOMAIN out : out[k] = rels[C6_Nth(C6_First(rels), k)]

\* C6: RelationshipDetector.deduplicate_relationships and the seen filter of
\* AnalyzerFactory.detect_all_relationships both return, in input order,
\* the first edge of the input for each (from, to, type); source and
\* multiplicity play no part
C6_BothDedups ==
    /\ d_op = "deduplicate_relationships" =>
          C6_FirstOccurrences(d_arg, d_result)
    /\ f_op = "detect_all_relationships" =>
          C6_FirstOccurrences(f_concat, f_result)

C6_Witness ==
    /\ d_op = "deduplicate_relationships"
    /\ d_arg = <<EdgeM("A", "B", "extends", "inferred", ""),
                 EdgeM("A", "B", "extends", "heuristic", "1..*")>>
    /\ d_result = <<EdgeM("A", "B", "extends", "inferred", "")>>
    /\ f_op = "detect_all_relationships"
    /\ Len(f_result) < Len(f_concat)

C2_Keys(rels) == {<<rels[i].from, rels[i].to, rels[i].type>> : i \in DOMAIN rels}

\* C2: two analyses of the same file set return the same class records and
\* the same set of (from, to, type) relationships, whatever the order of
\* the tasks and the interleaving of the worker threads
C2_SameResultTwice ==
    Len(returned) >= 2 =>
        /\ Range(returned[1].python) = Range(returned[2].python)
        /\ C2_Keys(returned[1].relations) = C2_Keys(returned[2].relations)

C4_Declared(file) ==
    IF EndsWith(file, ".py") /\ file.fault = "none"
    THEN {file.classes[k].name : k \in DOMAIN file.classes}
    ELSE {}

C4_AllNames == UNION {C4_Declared(file_tasks[i]) : i \in DOMAIN file_tasks}

\* C4: when _build_relations has run, every worker task of the scan has
\* completed and the class-name set holds the classes of every analysed
\* file; from then on the set is not extended
C4_Barrier ==
    /\ [](repo_pc = "built" =>
            /\ \A i \in DOMAIN task_pc : task_pc[i].pc = "done"
            /\ all_class_names = C4_AllNames)
    /\ [][repo_pc = "built" => all_class_names' = all_class_names]_vars

C4_Witness ==
    /\ repo_pc = "built"
    /\ Len(result.python) = 2
    /\ result.relations # <<>>

\* the record a class name stands for in a class list: the first with it
C11_RecordOf(classes, name) ==
    classes[CHOOSE i \in DOMAIN classes :
                /\ classes[i].class = name
                /\ \A j \in 1..(i - 1) : classes[j].class # name]

C11_Named(classes) == {classes[i].class : i \in DOMAIN classes}

C11_Expected ==
    {Edge(rel.from, rel.to, "implements", "inferred") :
        rel \in {r \in Range(relationships) :
                   /\ r.type = "extends"
                   /\ \E i \in DOMAIN d_arg :
                         d_arg[i].class = r.to /\ ~d_arg[i].abstract
                   /\ r.from \in C11_Named(d_arg)
                   /\ C11_RecordOf(d_arg, r.from).abstract}}

\* C11: infer_additional_relationships emits an implements edge B->C with
\* source 'inferred' for every class C not marked abstract that is the
\* target of a stored extends edge B->C whose source class B is marked
\* abstract, and no other implements edge
C11_ImplementsFromAbstractBase ==
    d_op = "infer_additional_relationships" =>
        {e \in Range(d_result) : e.type = "implements"} = C11_Expected

C11_Witness ==
    /\ d_op = "infer_additional_relationships"
    /\ relationships = <<Edge("A", "B", "extends", "heuristic")>>
    /\ d_arg = <<[class |-> "A", fields |-> <<>>, abstract |-> TRUE],
                 [class |-> "B", fields |-> <<>>, abstract |-> FALSE]>>
    /\ d_result = <<Edge("A", "B", "implements", "inferred")>>

\* C12: every edge of the relations analyze_repo returns has from # to
\* unless its type is dependency
C12_NoSelfEdge ==
    \A n \in DOMAIN returned :
        \A e \in Range(returned[n].relations) :
            e.from # e.to \/ e.type = "dependency"

\* C13: every edge that detect_all_relationships returns, hence every edge
\* a language analyzer's detect_relationships returns, carries source
\* 'heuristic', the uses edges from Java method parameter types included
C13_AllHeuristic ==
    f_op = "detect_all_relationships" =>
        \A n \in DOMAIN f_result : f_result[n].source = "heuristic"

\* the field strings that the statements self.a = K(...) and
\* self.a: K = K(...) of the methods of a class node stand for
C14_AssignedFields(node, K) ==
    UNION {UNION {
        LET sub == node.body[b].nodes[s] IN
        IF sub.kind = "Assign" /\ sub.callee = K
        THEN {<<sub.self_attrs[t]>> : t \in DOMAIN sub.self_attrs}
        ELSE IF /\ sub.kind = "AnnAssign" /\ sub.self_attr # ""
                /\ sub.annotation = Name(K)
                /\ \E c \in DOMAIN node.body[b].nodes :
                       /\ node.body[b].nodes[c].kind = "Call"
                       /\ node.body[b].nodes[c].func = K
        THEN {<<sub.self_attr, ":", " ", K>>}
        ELSE {} : s \in DOMAIN node.body[b].nodes} :
            b \in {k \in DOMAIN node.body : node.body[k].kind = "FunctionDef"}}

C14_HasEdge(rels, from, to) ==
    \E n \in DOMAIN rels :
        /\ rels[n].from = from /\ rels[n].to = to
        /\ rels[n].type = "composition"

\* the analyze_file calls on the current PythonAnalyzer
C14_PyCalls ==
    {n \in DOMAIN f_log :
        /\ f_log[n].gen = f_gen /\ f_log[n].id = analyzers.python.id
        /\ f_log[n].file.fault = "none"}

\* the names registered when class c of call n is analysed
C14_KnownBefore(n, c) ==
    UNION {{f_log[k].classes[j].class : j \in DOMAIN f_log[k].classes} :
              k \in {k \in C14_PyCalls : k < n}}
    \cup {f_log[n].file.classes[j].name : j \in 1..(c - 1)}

C14_Factory ==
    \A n \in C14_PyCalls : \A c \in DOMAIN f_log[n].file.classes :
        LET node == f_log[n].file.classes[c] IN
        \A K \in C14_KnownBefore(n, c) \ {node.name} :
            C14_AssignedFields(node, K) # {} =>
                /\ C14_AssignedFields(node, K)
                       \subseteq Range(f_log[n].classes[c].fields)
                /\ C14_HasEdge(analyzers.python.compositions, node.name, K)
                /\ f_op = "detect_all_relationships" =>
                       C14_HasEdge(f_result, node.name, K)

C14_RepoStep ==
    \A i \in DOMAIN task_pc :
        (task_pc[i].pc = "members" /\ task_pc'[i] # task_pc[i]) =>
            LET node == file_tasks[i].classes[task_pc[i].cls] IN
            \A K \in all_class_names \ {node.name} :
                C14_AssignedFields(node, K) # {} =>
                    /\ result'.python[Len(result'.python)].class = node.name
                    /\ C14_AssignedFields(node, K) \subseteq
                           Range(result'.python[Len(result'.python)].fields)
                    /\ C14_HasEdge(composition_rels', node.name, K)

C14_RepoBuilt ==
    repo_pc = "built" =>
        \A n \in DOMAIN composition_rels :
            C14_HasEdge(result.relations, composition_rels[n].from,
                        composition_rels[n].to)

\* C14: when a class K is already registered and a method of another
\* Python class C assigns K(...) to a self attribute a, the class record of
\* C lists the field a ('a: K' when the statement is annotated) and the
\* relations, of the analyzers and of analyze_repo, hold (C, K, composition)
C14_SelfAttributeComposition ==
    /\ []C14_Factory
    /\ [][C14_RepoStep]_vars
    /\ []C14_RepoBuilt

C14_Witness ==
    /\ f_op = "detect_all_relationships"
    /\ C14_HasEdge(f_result, "Car", "Engine")
    /\ C14_HasEdge(f_result, "Turbo", "Engine")
    /\ returned # <<>>
    /\ C14_HasEdge(returned[1].relations, "Car", "Engine")
    /\ C14_HasEdge(returned[1].relations, "Turbo", "Engine")
    /\ \E n \in DOMAIN returned[1].python :
           /\ returned[1].python[n].class = "Car"
           /\ <<"engine", ":", " ", "Engine">>
                  \in Range(returned[1].python[n].fields)

\* the word k tokens into some occurrence of a pattern in a text is X
C15_Occurs(MatchLen(_, _), text, k, X) ==
    \E i \in DOMAIN text : MatchLen(text, i) > 0 /\ text[i + k] = X

\* the (from, to, type) the statements of a one-class Java file call for,
\* given the class names of the scan
C15_Expected(file, names) ==
    IF file.fault # "none" \/ Len(file.classes) # 1 THEN {}
    ELSE LET C == file.classes[1].name IN
         {<<C, X, "composition">> : X \in
             {X \in names \ {C} :
                 C15_Occurs(ThisAssignNew, file.source, 5, X)}}
         \cup {<<C, X, "uses">> : X \in
             {X \in names \ {C} :
                 \/ C15_Occurs(NewCall, file.source, 1, X)
                 \/ C15_Occurs(StaticCall, file.source, 0, X)
                 \/ C15_Occurs(LocalDeclaration, file.source, 0, X)}}

C15_Keys(rels) ==
    {<<rels[n].from, rels[n].to, rels[n].type>> : n \in DOMAIN rels}

C15_JavaCalls ==
    {n \in DOMAIN f_log :
        /\ f_log[n].gen = f_gen /\ f_log[n].id = analyzers.java.id}

C15_Factory ==
    (/\ f_op = "detect_all_relationships"
     /\ f_concat = AllRelationships(Languages, Collected)) =>
        \A n \in C15_JavaCalls :
            C15_Expected(f_log[n].file, ClassNamesOf(Collected))
                \subseteq C15_Keys(f_result)

C15_Repo ==
    repo_pc = "built" =>
        \A i \in DOMAIN file_tasks :
            C15_Expected(file_tasks[i],
                UNION {{file_tasks[j].classes[k].name :
                           k \in DOMAIN file_tasks[j].classes} :
                       j \in {j \in DOMAIN file_tasks :
                                 file_tasks[j].fault = "none"}})
                \subseteq C15_Keys(result.relations)

C16_FieldOfType(text, i) ==
    IF /\ IsWord(TokenAt(text, i)) /\ IsWord(TokenAt(text, i + 1))
       /\ TokenAt(text, i + 2) = ";"
    THEN 3 ELSE 0

\* a static call 'X::m('
C16_ScopedCall(text, i) ==
    IF /\ IsWord(TokenAt(text, i)) /\ TokenAt(text, i + 1) = ":"
       /\ TokenAt(text, i + 2) = ":" /\ IsWord(TokenAt(text, i + 3))
       /\ TokenAt(text, i + 4) = "("
    THEN 5 ELSE 0

C16_Declared(file) ==
    {file.source[i + 1] : i \in
        {i \in DOMAIN file.source : TypeDeclaration(file.source, i) > 0}}

\* the (from, to, type) a one-class C++ file calls for, given the class
\* names of the scan
C16_Expected(file, names) ==
    IF Cardinality(C16_Declared(file)) # 1 THEN {}
    ELSE LET C == CHOOSE c \in C16_Declared(file) : TRUE IN
         {<<C, X, "composition">> : X \in
             {X \in names \ {C} :
                 C15_Occurs(C16_FieldOfType, file.source, 0, X)}}
         \cup {<<C, X, "uses">> : X \in
             {X \in names \ {C} :
                 \/ C15_Occurs(NewCall, file.source, 1, X)
                 \/ C15_Occurs(C16_ScopedCall, file.source, 0, X)}}

\* C16: for C and C++ files under analyze_repo, a class C with a field
\* whose type is a class X of the scan yields (C, X, composition), and
\* 'new X(...)' or a static call on X yields (C, X, uses), both with source
\* 'heuristic', in the returned relations
C16_CppEdges ==
    repo_pc = "built" =>
        \A i \in DOMAIN file_tasks :
            \A key \in C16_Expected(file_tasks[i],
                           UNION {C16_Declared(file_tasks[j]) :
                                     j \in DOMAIN file_tasks}) :
                \E n \in DOMAIN result.relations :
                    /\ <<result.relations[n].from, result.relations[n].to,
                         result.relations[n].type>> = key
                    /\ result.relations[n].source = "heuristic"

C17_Tier(rel_type) ==
    IF rel_type \in {"extends", "implements"} THEN 1
    ELSE IF rel_type \in {"composition", "aggregation", "association"} THEN 2
    ELSE 3

C17_Level(min_strength) ==
    IF min_strength = "strong" THEN 1
    ELSE IF min_strength = "medium" THEN 2
    ELSE 3

\* s is t with some elements left out, the order kept
C17_SubList(s, t) ==
    \E pos \in [DOMAIN s -> DOMAIN t] :
        /\ \A i \in DOMAIN s : s[i] = t[pos[i]]
        /\ \A i \in DOMAIN s : \A j \in DOMAIN s : i < j => pos[i] < pos[j]

\* C17: filter_relationships_by_strength(R, m) returns, in input order,
\* exactly the edges of R whose tier is m or stronger; 'strong' keeps only
\* extends and implements edges, 'weak' returns all of R, and the result for
\* 'strong' is a sub-list of that for 'medium', which is one of that for
\* 'weak'
C17_StrengthFilter ==
    d_op = "filter_relationships_by_strength" =>
        LET R == d_arg[1]
            m == d_arg[2]
            kept == {i \in DOMAIN R : C17_Tier(R[i].type) <= C17_Level(m)}
            Nth(k) == CHOOSE i \in kept :
                          Cardinality({j \in kept : j <= i}) = k
        IN  /\ Len(d_result) = Cardinality(kept)
            /\ \A k \in DOMAIN d_result : d_result[k] = R[Nth(k)]
            /\ m = "strong" =>
                   \A k \in DOMAIN d_result :
                       d_result[k].type \in {"extends", "implements"}
            /\ m = "weak" => d_result = R
            /\ C17_SubList(FilterRelationshipsByStrength(R, "strong"),
                           FilterRelationshipsByStrength(R, "medium"))
            /\ C17_SubList(FilterRelationshipsByStrength(R, "medium"),
                           FilterRelationshipsByStrength(R, "weak"))

\* a 'medium' filter that dropped a weak edge and kept two others in order
C17_Witness ==
    /\ d_op = "filter_relationships_by_strength"
    /\ d_arg[2] = "medium"
    /\ Len(d_arg[1]) = 3
    /\ Len(d_result) = 2
    /\ d_result[1].type = "composition"
    /\ d_result[2].type = "extends"

\* C18: categorize_relationships(R) returns one bucket per relationship
\* type and puts every edge of R whose type is one of the seven kinds into
\* the bucket of its type, so each bucket is as long as R has edges of that
\* type
C18_BucketCounts ==
    d_op = "categorize_relationships" =>
        \A k \in DOMAIN RELATIONSHIP_TYPES :
            LET t == RELATIONSHIP_TYPES[k]
                bucket == IF t \in DOMAIN d_result THEN d_result[t]
                          ELSE IF k \in DOMAIN d_result THEN d_result[k]
                          ELSE <<>>
            IN  Len(bucket) =
                    Cardinality({i \in DOMAIN d_arg : d_arg[i].type = t})

\* C19: every edge that infer_additional_relationships(classes) emits, when
\* the class set was loaded with set_classes from the same class list, has
\* from != to and both endpoints in the known class-name set
C19_InferredEdgesValid ==
    (/\ d_op = "infer_additional_relationships"
     /\ all_classes = {d_arg[i].class : i \in DOMAIN d_arg}) =>
        \A n \in DOMAIN d_result :
            /\ d_result[n].from # d_result[n].to
            /\ d_result[n].from \in all_classes
            /\ d_result[n].to \in all_classes

\* the last call with this payload that fetched a response
C20_LastFetch(payload) ==
    g_last[CHOOSE n \in DOMAIN g_last : g_last[n].payload = payload]

C20_Fresh(payload) ==
    /\ groq.cache_enabled
    /\ \E n \in DOMAIN g_last : g_last[n].payload = payload
    /\ g_now - C20_LastFetch(payload).time < cache_ttl
    /\ hash_payload(payload) \in CacheKeys(groq.cache)

\* C20: with caching enabled, a call whose payload equals that of an
\* earlier successful call made less than cache_ttl seconds ago, and whose
\* entry was not evicted, returns the earlier response and sends no HTTP
\* request
C20_CachedCallSendsNothing ==
    [][\A payload \in Payloads :
          \A outcomes \in [1..(max_retries + 1) -> Outcomes] :
              (C20_Fresh(payload) /\ call(payload, outcomes))
              => /\ g_posts' = g_posts
                 /\ g_result' = [status |-> "ok",
                                 data |-> C20_LastFetch(payload).data]]_vars

C21_IsEdge(a, b) ==
    \E i \in DOMAIN relationships :
        /\ relationships[i].type
               \in {"extends", "implements", "composition", "dependency"}
        /\ relationships[i].from = a
        /\ relationships[i].to = b

C21_ClosedPath(c) ==
    /\ Len(c) >= 2
    /\ c[1] = c[Len(c)]
    /\ \A i \in 1..(Len(c) - 1) : C21_IsEdge(c[i], c[i + 1])
    /\ \A i \in 1..(Len(c) - 1) :
           \A j \in 1..(Len(c) - 1) : c[i] = c[j] => i = j

\* C21: every cycle returned by detect_circular_dependencies is a closed
\* path of the graph of the stored extends, implements, composition and
\* dependency edges: first and last entries are equal, every consecutive
\* pair is an edge, and the entries before the last are pairwise distinct.
C21_CyclesAreClosedPaths ==
    d_op = "detect_circular_dependencies" =>
        \A n \in DOMAIN d_result : C21_ClosedPath(d_result[n])

\* a cycle of two classes was found below a class that is not on it
C21_Witness ==
    /\ d_op = "detect_circular_dependencies"
    /\ \E n \in DOMAIN d_result : Len(d_result[n]) = 3
    /\ \E i \in DOMAIN relationships :
           /\ relationships[i].type = "extends"
           /\ \A n \in DOMAIN d_result :
                  relationships[i].from \notin Range(d_result[n])

\* c2 is c1 started at another member: the closed paths without their
\* repeated last entry are rotations of each other by k places, 0 < k
C22_Rotation(c1, c2) ==
    /\ Len(c1) = Len(c2)
    /\ Len(c1) >= 2
    /\ c1[1] = c1[Len(c1)]
    /\ c2[1] = c2[Len(c2)]
    /\ \E k \in 1..(Len(c1) - 2) :
           \A i \in 1..(Len(c1) - 1) :
               c2[i] = c1[((i - 1 + k) % (Len(c1) - 1)) + 1]

C22_ReportsRotation(cycles) ==
    \E i \in DOMAIN cycles : \E j \in DOMAIN cycles :
        i # j /\ C22_Rotation(cycles[i], cycles[j])

\* the edge lists a detector of the cycle runs can hold
C22_EdgeLists ==
    UNION {[1..n -> CycleEdges] : n \in 0..MaxCycleRels}

\* C22: one call to detect_circular_dependencies can report the same cycle
\* more than once: there are edge sets for which the returned list holds
\* two entries that are rotations of each other.  Said of a detector that
\* holds no edge yet: some edge list, once added, makes the call return two
\* such entries.
C22_SomeEdgeSetReportsRotation ==
    relationships = <<>> =>
        \E rels \in C22_EdgeLists :
            C22_ReportsRotation(
                DetectCircularDependencies(relationships \o rels))

\* C22, amended: no call to detect_circular_dependencies returns two entries
\* that are rotations of each other; every class is searched once, so a
\* cycle is reported from one member only.
C22_NoRotationReported ==
    d_op = "detect_circular_dependencies" => ~C22_ReportsRotation(d_result)

\* a cycle of two classes was reported and both classes start edges, so
\* both are roots the search loop comes to
C22_Witness ==
    /\ d_op = "detect_circular_dependencies"
    /\ \E n \in DOMAIN d_result :
           /\ Len(d_result[n]) = 3
           /\ d_result[n][1] # d_result[n][2]
           /\ \A m \in 1..2 :
                  \E i \in DOMAIN relationships :
                      /\ relationships[i].type = "extends"
                      /\ relationships[i].from = d_result[n][m]

C23_ReadOnly ==
    {"validate_relationships", "deduplicate_relationships",
     "infer_additional_relationships", "categorize_relationships",
     "filter_relationships_by_strength", "get_class_relationships",
     "detect_circular_dependencies", "get_relationship_statistics"}

\* C23: validate_relationships, deduplicate_relationships,
\* infer_additional_relationships, categorize_relationships,
\* filter_relationships_by_strength, get_class_relationships,
\* detect_circular_dependencies and get_relationship_statistics leave the
\* stored candidate list and the class-name set unchanged; only
\* add_relationships and set_classes change them.
C23_ReadOnlyOperations ==
    [][/\ d_op' \in C23_ReadOnly =>
              /\ relationships' = relationships
              /\ all_classes' = all_classes
       /\ (relationships' # relationships \/ all_classes' # all_classes) =>
              d_op' \in {"add_relationships", "set_classes"}]_vars

\* validation has dropped a stored edge from its result, and the edge is
\* still stored
C23_Witness ==
    /\ d_op = "validate_relationships"
    /\ Len(d_result) < Len(relationships)
    /\ all_classes # {}

\* class node calls the constructor of K in a method body
C24_Constructs(node, K) ==
    \E b \in DOMAIN node.body :
        /\ node.body[b].kind = "FunctionDef"
        /\ \E s \in DOMAIN node.body[b].nodes :
               /\ node.body[b].nodes[s].kind = "Call"
               /\ node.body[b].nodes[s].func = K

C24_HasEdge(rels, from, to, type) ==
    \E n \in DOMAIN rels :
        rels[n].from = from /\ rels[n].to = to /\ rels[n].type = type

\* C24: in the Python analyzer a constructor call of a known class inside a
\* method body whose result is not assigned to an attribute of self, such
\* as a local e = Engine(), is recorded as a uses edge from the enclosing
\* class, not as a composition edge
C24_LocalInstanceIsUse ==
    f_op = "detect_all_relationships" =>
        \A n \in C14_PyCalls : \A c \in DOMAIN f_log[n].file.classes :
            LET node == f_log[n].file.classes[c] IN
            \A K \in C14_KnownBefore(n, c) \ {node.name} :
                (C24_Constructs(node, K) /\ C14_AssignedFields(node, K) = {})
                => /\ C24_HasEdge(f_result, node.name, K, "uses")
                   /\ ~C24_HasEdge(f_result, node.name, K, "composition")

\* the pairs <<class, base>> of the class declarations "class C : B1, B2 {"
\* of a C# text whose base lists are plain names
C25_Declared(source) ==
    {<<source[i + 1], source[j]>> :
        i \in {i \in DOMAIN source :
                  source[i] = "class" /\ TokenAt(source, i + 2) = ":"},
        j \in DOMAIN source}
    \cap
    UNION {{<<source[i + 1], source[j]>> :
               j \in {j \in (i + 3)..Len(source) :
                         /\ IsWord(source[j])
                         /\ \A k \in (i + 3)..j : source[k] # "{"}} :
              i \in {i \in DOMAIN source : source[i] = "class"}}

C25_Type(base) ==
    IF /\ Len(base) >= 2
       /\ SubSeq(base, 1, 1) = "I"
       /\ SubSeq(base, 2, 2) \in UpperLetters
    THEN "implements" ELSE "extends"

\* C25: the C# analyzer adds one base-to-class edge for every name of a
\* class's comma-separated base list, typed implements when the name starts
\* with 'I' followed by an uppercase letter and extends otherwise (so the
\* bases 'Item' and 'I' give extends edges), and the class is still
\* returned as a class record
C25_BaseEdges ==
    \A n \in DOMAIN f_log :
        (f_log[n].id = analyzers.csharp.id /\ f_log[n].file.fault = "none")
        => \A cb \in C25_Declared(f_log[n].file.source) :
               /\ \E e \in Range(analyzers.csharp.relationships) :
                      /\ e.from = cb[2] /\ e.to = cb[1]
                      /\ e.type = C25_Type(cb[2])
               /\ \E k \in DOMAIN f_log[n].classes :
                      /\ f_log[n].classes[k].class = cb[1]
                      /\ f_log[n].classes[k].stereotype # "interface"

\* the number of tokens tok among source[from..to]
C26_Count(source, tok, from, to) ==
    Cardinality({k \in from..to : source[k] = tok})

\* a brace-balanced text none of whose proper prefixes is balanced
C26_Balanced(s) ==
    /\ s # <<>>
    /\ C26_Count(s, "{", 1, Len(s)) = C26_Count(s, "}", 1, Len(s))
    /\ \A n \in 1..(Len(s) - 1) :
          C26_Count(s, "{", 1, n) > C26_Count(s, "}", 1, n)

\* the text from the first "{" at or behind start through the "}" that
\* brings the depth back to 0, <<>> if there is none
C26_Body(source, start) ==
    LET opens == {i \in start..Len(source) : source[i] = "{"}
    IN  IF opens = {} THEN <<>>
        ELSE LET b == CHOOSE i \in opens : \A k \in opens : i <= k
                 ends == {e \in b..Len(source) :
                             C26_Count(source, "{", b, e)
                                 = C26_Count(source, "}", b, e)}
             IN  IF ends = {} THEN <<>>
                 ELSE SubSeq(source, b,
                             CHOOSE e \in ends : \A k \in ends : e <= k)

C26_Text ==
    IF f_op = "extract_class_content" THEN JavaText ELSE in_arg.source

C26_Start ==
    IF f_op = "extract_class_content" THEN in_arg.start_pos + 2
    ELSE in_arg.start_pos

\* C26: each of the three brace-matching extractors returns the text from
\* the first "{" at or behind the start position through the "}" that brings
\* the depth back to 0, which is balanced and has no balanced proper prefix,
\* returns an empty body when there is no such "{" or "}", and runs its loop
\* at most once per token of the text.
C26_BraceMatching ==
    f_op \in {"cs_extract_class_content", "ts_extract_class_content",
              "extract_class_content"}
        => /\ f_result.content = C26_Body(C26_Text, C26_Start)
           /\ f_result.content # <<>> => C26_Balanced(f_result.content)
           /\ f_result.passes <= Len(C26_Text)

C26_Witness ==
    /\ f_op = "cs_extract_class_content"
    /\ in_arg.source = <<"}", "{", "{", "}", "}">>
    /\ in_arg.start_pos = 2
    /\ f_result.content = <<"{", "{", "}", "}">>

C27_Key(rel) == <<rel.from, rel.to, rel.type>>

\* the positions i < j of two edges of the built list with one key
C27_Repeats ==
    {p \in (DOMAIN in_arg.final) \X (DOMAIN in_arg.final) :
        /\ p[1] < p[2]
        /\ C27_Key(in_arg.final[p[1]]) = C27_Key(in_arg.final[p[2]])}

\* C27 as stated: the list built by validate, deduplicate and infer in
\* order holds at most one edge per (from, to, type).
C27_FinalListUnique == in_arg.pc = "done" => C27_Repeats = {}

\* C27 as amended: in the list built by the three passes in order, the
\* part returned by deduplicate_relationships(validate_relationships())
\* holds at most one edge per (from, to, type); whenever two edges of the
\* list have one key, the later of them is an inferred edge.
C27_RepeatsAreInferred ==
    in_arg.pc = "done"
        => \A p \in C27_Repeats :
              /\ p[2] > Len(in_arg.final) - Len(d_result)
              /\ in_arg.final[p[2]].source = "inferred"

C27_Witness ==
    /\ in_arg.pc = "done"
    /\ Len(relationships) = 2
    /\ relationships[1] = relationships[2]
    /\ Len(in_arg.final) - Len(d_result) = 1
    /\ C27_Repeats # {}

\* the stored dependency edges X -> X
C28_SelfDependencies ==
    {i \in DOMAIN relationships :
        /\ relationships[i].type = "dependency"
        /\ relationships[i].from = relationships[i].to}

\* C28: every stored dependency edge X -> X is kept by validation, is what
\* an analyzer that imported X emits when X is the name of a class, and
\* makes detect_circular_dependencies report the cycle [X, X].
C28_SelfDependencyIsCycle ==
    d_op = "detect_circular_dependencies" =>
        \A i \in C28_SelfDependencies :
            LET X == relationships[i].from
            IN  /\ <<X, X>> \in Range(d_result)
                /\ relationships[i]
                       \in Range(ValidateRelationships(relationships,
                                                       all_classes))
                /\ Edge(X, X, "dependency", "heuristic")
                       \in Range(DetectRelationships(
                              [NewAnalyzer(1, "PythonAnalyzer")
                                  EXCEPT !.imports = {X}],
                              <<ClassRec(X)>>))

C28_Witness ==
    /\ d_op = "detect_circular_dependencies"
    /\ Len(relationships) = 3
    /\ relationships[1] = Edge("A", "B", "extends", "heuristic")
    /\ relationships[2] = Edge("B", "A", "extends", "heuristic")
    /\ relationships[3] = Edge("B", "B", "dependency", "heuristic")
    /\ d_result = <<<<"A", "B", "A">>, <<"B", "B">>>>

\* the class-name registry and the candidate-edge lists of an analyzer
C29_Registry(a) ==
    <<a.class_names, a.relationships, a.compositions, a.usages>>

\* C29: an analyze_file call of the C# analyzer that returns no class
\* records because an exception was raised while analysing the file leaves
\* the analyzer's class-name registry and candidate-edge lists as they were
\* before the call.
C29_ExceptionLeavesRegistry ==
    [][\A file \in CsFiles :
          (/\ f_op' = "analyze_file"
           /\ f_log' = Append(f_log, f_log'[Len(f_log')])
           /\ f_log'[Len(f_log')].file = file
           /\ f_result' = <<>>
           /\ CsAnalyzeSource(analyzers["csharp"], file, "").raised)
              => C29_Registry(analyzers'["csharp"])
                     = C29_Registry(analyzers["csharp"])]_vars

\* a step that is one GroqClient.call of an enabled client
C30_Call == g_calls' = g_calls + 1 /\ groq.enabled

\* the breaker is open: cooldown_seconds have not elapsed since the call
\* that reached the threshold
C30_Open == groq.disabled_until # 0 /\ g_now < groq.disabled_until

\* a call made while the breaker is open raises GroqClientDisabledError,
\* sends nothing and changes nothing, whatever the cache holds
C30_Rejects ==
    /\ g_result'.status = "GroqClientDisabledError"
    /\ g_posts' = g_posts
    /\ groq' = groq

\* a failed call counts; the call that brings the count to
\* failure_threshold raises GroqClientDisabledError and opens the breaker
\* for cooldown_seconds
C30_Fails ==
    IF groq.failure_count + 1 >= failure_threshold
    THEN /\ g_result'.status = "GroqClientDisabledError"
         /\ g_posts' > g_posts
         /\ groq'.disabled_until = g_now' + cooldown_seconds
         /\ groq'.failure_count = 0
    ELSE /\ g_result'.status = "GroqClientError"
         /\ groq'.failure_count = groq.failure_count + 1
         /\ groq'.disabled_until = groq.disabled_until

\* C30 as stated: the count of consecutive failed calls is set back to 0 by
\* every successful call; the call that brings it to failure_threshold
\* raises GroqClientDisabledError; every call made before cooldown_seconds
\* have elapsed raises GroqClientDisabledError without sending an HTTP
\* request, even when its payload has a live cache entry.
C30_AnySuccessResets ==
    [][C30_Call =>
          IF C30_Open THEN C30_Rejects
          ELSE IF g_result'.status = "ok" THEN groq'.failure_count = 0
          ELSE C30_Fails]_vars

\* C30 as amended: the count of consecutive failed calls is set back to 0
\* by every successful call that fetched its response, and left as it is
\* by a call answered from the cache; the call that brings it to
\* failure_threshold raises GroqClientDisabledError; every call made before
\* cooldown_seconds have elapsed raises GroqClientDisabledError without
\* sending an HTTP request, even when its payload has a live cache entry.
C30_FetchedSuccessResets ==
    [][C30_Call =>
          IF C30_Open THEN C30_Rejects
          ELSE IF g_result'.status = "ok"
          THEN IF g_posts' > g_posts
               THEN groq'.failure_count = 0 /\ groq'.disabled_until = 0
               ELSE groq'.failure_count = groq.failure_count
          ELSE C30_Fails]_vars

\* the breaker is open, the last call raised GroqClientDisabledError, the
\* cache holds a live entry, and one of the four calls sent nothing
C30_Witness ==
    /\ groq.enabled
    /\ groq.disabled_until # 0 /\ g_now < groq.disabled_until
    /\ g_result.status = "GroqClientDisabledError"
    /\ g_calls = 4
    /\ g_posts = 3
    /\ \E payload \in Payloads : C20_Fresh(payload)

====
